---- MODULE Spec2Model ----
(***************************************************************************)
(* Schedule-computation engine of release-flow (src/lib/gantt-calculator.ts *)
(* and src/lib/date-utils.ts): dependency-and-priority ordering, capacity   *)
(* builder, calendar utility and the per-task scheduler with its recursive  *)
(* blocker resolution.                                                      *)
(*                                                                          *)
(* Time.  A JavaScript Date is an instant; it is modelled as an integer     *)
(* number of hours since 00:00 UTC of day 0.  Day 0 is a Sunday, so that    *)
(* getDay() of a calendar day d is d % 7 (0 = Sunday, 6 = Saturday).  The   *)
(* runtime's UTC offset is tz hours (local time = UTC + tz); daylight       *)
(* saving changes are not modelled.  A calendar-date string "YYYY-MM-DD"    *)
(* is modelled by its day number, and string comparison of two such        *)
(* strings by comparison of the day numbers.                               *)
(*                                                                          *)
(* Optional values (undefined / null) are sequences of length at most one:  *)
(* <<>> is absent, <<x>> is x.                                              *)
(***************************************************************************)
EXTENDS Integers, Sequences, FiniteSets, TLC

VARIABLES
    tz,                 \* UTC offset of the runtime, in hours
    release,            \* the Release input of calculateGanttData
    pc,                 \* position in calculateGanttData
    inDegree,           \* orderTasksByDependenciesAndPriority: inDegree map
    zero,               \* orderTasksByDependenciesAndPriority: zero queue (task ids)
    ordered,            \* orderTasksByDependenciesAndPriority: ordered (task ids)
    sortedTasks,        \* calculateGanttData: sortedTasks (task ids)
    employeeCapacities, \* calculateGanttData: employeeCapacities map
    taskScheduleMap,    \* calculateGanttData: taskScheduleMap
    ganttTasks,         \* calculateGanttData: ganttTasks
    stack,              \* activation records of calculateTaskSchedule, innermost last
    ret,                \* value returned by the activation that ended last, not yet consumed
    releaseDate,        \* GanttData.releaseDate (projectEndDate)
    steps,              \* history: number of steps taken by this call
    snapshot,           \* history: the Release as it was passed to the first call
    results,            \* history: the GanttData values returned by the calls before this one
    capacitiesAtCall,   \* history: employeeCapacities when the main loop called calculateTaskSchedule
    date,               \* nextWorkingDay on its own: the argument date
    d,                  \* nextWorkingDay on its own: the local d
    pcDay,              \* nextWorkingDay on its own: position, "idle" when it is not run on its own
    data,               \* storage: the stored ProjectData (releases with their tasks)
    lastOp              \* history: the latest storage operation and the data it found

vars == <<tz, release, pc, inDegree, zero, ordered, sortedTasks, employeeCapacities,
          taskScheduleMap, ganttTasks, stack, ret, releaseDate, steps,
          snapshot, results, capacitiesAtCall, date, d, pcDay, data, lastOp>>

----------------------------------------------------------------------------
(* Bounds of the model *)

MaxTasks == 2       \* tasks per release
MaxEdges == 3       \* blocker entries per release (graph family)
MaxHolidays == 3    \* custom holidays in a row (nextWorkingDay on its own)
HorizonDays == 7    \* length of the planning horizon in days, standing for the 12 months of setMonth(+12)

(* Program constants *)

WorkdayHours == 8   \* hours of one working day of an unassigned task

None == <<>>
Some(x) == <<x>>
IsSome(o) == Len(o) > 0
Val(o) == o[1]

----------------------------------------------------------------------------
(* Date primitives of the JavaScript runtime *)

\* new Date(s): "YYYY-MM-DD" is midnight UTC of that day; a full ISO timestamp is its instant
ParseDate(s) == IF s.kind = "date" THEN s.v * 24 ELSE s.v

\* new Date(day + "T00:00:00"): a date-time without offset is local time
ParseLocalMidnight(day) == day * 24 - tz

\* date.toISOString().split("T")[0]: the calendar day in UTC
ISODate(t) == t \div 24

\* getFullYear/getMonth/getDate: the calendar day in local time
LocalDay(t) == (t + tz) \div 24

\* date.setHours(0, 0, 0, 0): local midnight of the local day
SetHoursZero(t) == LocalDay(t) * 24 - tz

\* date.setDate(date.getDate() + n): same local time of day, n days later
AddDays(t, n) == t + 24 * n

----------------------------------------------------------------------------
(* Calendar utility (date-utils) *)

isWeekend(t) == LocalDay(t) % 7 = 0 \/ LocalDay(t) % 7 = 6

toUTCDateOnly(t) == LocalDay(t)

\* mutant of isHoliday: the day of toISOString() instead of the local calendar day
isHolidayByUTCDay(t, customHolidays) == ISODate(t) \in customHolidays

isHoliday(t, customHolidays) == toUTCDateOnly(t) \in customHolidays

isWorkingDay(t, customHolidays) == ~isWeekend(t) /\ ~isHoliday(t, customHolidays)

RECURSIVE AdvanceToWorkingDay(_, _)
AdvanceToWorkingDay(t, customHolidays) ==
    IF isWorkingDay(t, customHolidays) THEN t
    ELSE AdvanceToWorkingDay(AddDays(t, 1), customHolidays)

nextWorkingDay(t, customHolidays) == AdvanceToWorkingDay(SetHoursZero(t), customHolidays)

RECURSIVE addWorkingDays(_, _, _)
addWorkingDays(t, workingDays, customHolidays) ==
    IF workingDays <= 0 THEN t
    ELSE LET next == AddDays(t, 1)
         IN  addWorkingDays(next,
                            IF isWorkingDay(next, customHolidays)
                            THEN workingDays - 1 ELSE workingDays,
                            customHolidays)

\* mutant of Ceil: Math.floor
Floor(a, b) == a \div b

\* Math.ceil(a / b) for integers a >= 0, b > 0
Ceil(a, b) == (a + b - 1) \div b

----------------------------------------------------------------------------
(* Views of the Release input *)

Range(s) == {s[i] : i \in 1..Len(s)}

tasks == release.tasks

TaskIdsInOrder == [i \in 1..Len(tasks) |-> tasks[i].id]

TaskIdSet == Range(TaskIdsInOrder)

\* tasksMap.has(id) / taskById.has(id)
tasksMapHas(id) == id \in TaskIdSet

\* tasksMap.get(id) / taskById.get(id), for an id of the release
tasksMapGet(id) == tasks[CHOOSE i \in 1..Len(tasks) : tasks[i].id = id]

----------------------------------------------------------------------------
(* orderTasksByDependenciesAndPriority *)

\* inDegree after the two set-up loops: one per distinct in-release blocker
InitialInDegree ==
    [id \in TaskIdSet |->
        Cardinality({b \in Range(tasksMapGet(id).blockerTaskIds) : tasksMapHas(b)})]

\* graph.get(b): the ids of the tasks listing b, in insertion (task) order
Outs(b) ==
    LET Lists(id) == b \in Range(tasksMapGet(id).blockerTaskIds)
    IN  SelectSeq(TaskIdsInOrder, Lists)

\* one insertion of Array.prototype.sort's stable ascending order by priority
InsertByPriority(sorted, id) ==
    LET p == tasksMapGet(id).priority
        k == Cardinality({i \in 1..Len(sorted) : tasksMapGet(sorted[i]).priority <= p})
    IN  SubSeq(sorted, 1, k) \o <<id>> \o SubSeq(sorted, k + 1, Len(sorted))

\* mutant of SortByPriority: no sort, the array stays in insertion order
KeepInsertionOrder(ids) == ids

RECURSIVE SortByPriority(_)
SortByPriority(ids) ==
    IF ids = <<>> THEN <<>>
    ELSE InsertByPriority(SortByPriority(SubSeq(ids, 1, Len(ids) - 1)), ids[Len(ids)])

\* the zero list before the while loop
InitialZero ==
    LET IsZero(id) == InitialInDegree[id] = 0
    IN  SortByPriority(SelectSeq(TaskIdsInOrder, IsZero))

\* the for loop over outs: decrement, re-admit what reaches zero
RECURSIVE RelaxOuts(_, _, _)
RelaxOuts(outs, deg, z) ==
    IF outs = <<>> THEN [inDegree |-> deg, zero |-> z]
    ELSE LET m == Head(outs)
             cur == deg[m]
             dec == (IF cur = 0 THEN 1 ELSE cur) - 1
             deg2 == [deg EXCEPT ![m] = dec]
         IN  RelaxOuts(Tail(outs), deg2, IF dec = 0 THEN Append(z, m) ELSE z)

\* mutant of OrderResult: the order returned back to front
OrderResultReversed(ord) ==
    LET NotOrdered(id) == id \notin Range(ord)
        full == ord \o SortByPriority(SelectSeq(TaskIdsInOrder, NotOrdered))
    IN  [i \in 1..Len(full) |-> full[Len(full) + 1 - i]]

\* mutant of OrderResult: the tasks left by a cycle are not appended
OrderResultWithoutRemaining(ord) == ord

\* mutant of OrderResult: the remaining tasks appended in input order
OrderResultRemainingUnsorted(ord) ==
    LET NotOrdered(id) == id \notin Range(ord)
    IN  ord \o SelectSeq(TaskIdsInOrder, NotOrdered)

\* the value returned: ordered, followed by the remaining tasks by priority when a cycle is left
OrderResult(ord) ==
    IF Len(ord) # Len(tasks)
    THEN LET NotOrdered(id) == id \notin Range(ord)
         IN  ord \o SortByPriority(SelectSeq(TaskIdsInOrder, NotOrdered))
    ELSE ord

\* mutant of InputTasksAfterOrdering: the remaining tasks sorted in the input array itself
InputTasksSortedInPlace(ord) ==
    IF Len(ord) # Len(tasks)
    THEN LET ids == SortByPriority(TaskIdsInOrder)
         IN  [i \in 1..Len(ids) |-> tasksMapGet(ids[i])]
    ELSE tasks

\* release.tasks after orderTasksByDependenciesAndPriority: zero is an array of its
\* own and filter() copies the input array before sort() reorders the copy
InputTasksAfterOrdering(ord) == tasks

----------------------------------------------------------------------------
(* Capacity builder *)

getEmployeeHoursForDate(employee, t) ==
    LET dateString == ISODate(t)
        periods == employee.capacityPeriods
        Covers(i) == periods[i].startDate <= dateString /\ periods[i].endDate >= dateString
        hits == {i \in 1..Len(periods) : Covers(i)}
    IN  IF hits = {} THEN 0
        ELSE periods[CHOOSE i \in hits : \A j \in hits : i <= j].hoursPerDay

\* the capacities array of one employee
EmployeeCapacityEntries(employee, projectStartDate, customHolidays) ==
    LET startDate == ParseDate(projectStartDate)
        endDate == AddDays(startDate, HorizonDays)
        \* the values currentDate takes while currentDate <= endDate
        days == [k \in 1..(HorizonDays + 1) |-> AddDays(startDate, k - 1)]
        Working(t) == t <= endDate /\ isWorkingDay(t, customHolidays)
        kept == SelectSeq(days, Working)
    IN  [k \in 1..Len(kept) |->
            [date |-> ISODate(kept[k]),
             hoursAvailable |-> getEmployeeHoursForDate(employee, kept[k]),
             hoursAllocated |-> 0]]

calculateEmployeeCapacities(employees, projectStartDate, customHolidays) ==
    [id \in {employees[i].id : i \in 1..Len(employees)} |->
        EmployeeCapacityEntries(
            employees[CHOOSE i \in 1..Len(employees) :
                        /\ employees[i].id = id
                        /\ \A j \in 1..Len(employees) : employees[j].id = id => j <= i],
            projectStartDate, customHolidays)]

\* employeeCapacities.get(id) || []
CapacityOf(caps, id) == IF id \in DOMAIN caps THEN caps[id] ELSE <<>>

----------------------------------------------------------------------------
(* calculateTaskSchedule: values and straight-line parts *)

\* mutant of Scheduled: the end date left out
ScheduledStartOnly(startDate, endDate) ==
    [startDate |-> Some(startDate), endDate |-> None, unscheduledReason |-> None]

Scheduled(startDate, endDate) ==
    [startDate |-> Some(startDate), endDate |-> Some(endDate), unscheduledReason |-> None]

Unscheduled(reason) ==
    [startDate |-> None, endDate |-> None, unscheduledReason |-> Some(reason)]

\* mutant of CycleOutcome: a revisit taken as resolved at the release start
CycleOutcomeScheduled ==
    Scheduled(ParseDate(release.startDate), ParseDate(release.startDate))

\* mutant of CycleOutcome: a revisit reported without its reason
CycleOutcomeUnknown == Unscheduled("unknown")

\* what the cycle guard returns
CycleOutcome == Unscheduled("cycle")

\* mutant of NewFrame: the callee starts from a fresh visited set
NewFrameFreshVisited(taskId, visited) ==
    [task |-> taskId, visited |-> {}, stage |-> "entry",
     bi |-> 1, latestBlockerEndTime |-> None, earliestStartDate |-> 0]

\* a new activation, before its first statement
NewFrame(taskId, visited) ==
    [task |-> taskId, visited |-> visited, stage |-> "entry",
     bi |-> 1, latestBlockerEndTime |-> None, earliestStartDate |-> 0]

\* taskScheduleMap.set(id, {startDate, endDate})
MapSet(map, id, schedule) ==
    [k \in (DOMAIN map) \cup {id} |->
        IF k = id THEN [startDate |-> Val(schedule.startDate), endDate |-> Val(schedule.endDate)]
        ELSE map[k]]

\* the earliest start before the blockers are looked at
InitialEarliestStart(task) ==
    nextWorkingDay(
        ParseDate(IF IsSome(task.calculatedStartDate)
                  THEN Val(task.calculatedStartDate) ELSE release.startDate),
        release.customHolidays)

\* latestBlockerEndTime after one resolved blocker
LaterEnd(latest, candidate) ==
    IF ~IsSome(latest) \/ candidate > Val(latest) THEN Some(candidate) ELSE latest

\* the earliest start once every blocker is resolved
EarliestAfterBlockers(frame) ==
    IF IsSome(frame.latestBlockerEndTime)
    THEN nextWorkingDay(AddDays(Val(frame.latestBlockerEndTime), 1), release.customHolidays)
    ELSE frame.earliestStartDate

\* the schedule of a task without assignee
UnassignedSchedule(task, earliestStartDate) ==
    LET rawEndDate == addWorkingDays(earliestStartDate,
                                     Ceil(task.estimatedHours, WorkdayHours),
                                     release.customHolidays)
    IN  Scheduled(earliestStartDate, nextWorkingDay(rawEndDate, release.customHolidays))

\* mutant of StartIndex: no fall-back to the first later entry
StartIndexExactOnly(employeeCapacity, startDateStr) ==
    LET same == {i \in 1..Len(employeeCapacity) : employeeCapacity[i].date = startDateStr}
    IN  IF same # {} THEN CHOOSE i \in same : \A j \in same : j <= i ELSE 0

\* idx: the entry of the start day if there is one, else the first later entry;
\* 0 stands for findIndex's -1
StartIndex(employeeCapacity, startDateStr) ==
    LET same == {i \in 1..Len(employeeCapacity) : employeeCapacity[i].date = startDateStr}
        later == {i \in 1..Len(employeeCapacity) : employeeCapacity[i].date > startDateStr}
    IN  IF same # {} THEN CHOOSE i \in same : \A j \in same : j <= i
        ELSE IF later # {} THEN CHOOSE i \in later : \A j \in later : i <= j
        ELSE 0

\* mutant of Min: the hours that remain, whatever the day still offers
MinIgnoringSecond(a, b) == a

\* Math.min(a, b)
Min(a, b) == IF a <= b THEN a ELSE b

\* mutant of AvailableHours: a fixed working day instead of the period's hours
AvailableHoursOfFixedDay(dayCapacity) == WorkdayHours - dayCapacity.hoursAllocated

\* availableHours of one capacity entry
AvailableHours(dayCapacity) == dayCapacity.hoursAvailable - dayCapacity.hoursAllocated

\* mutant of AllocateFrom: the loop ends after the first day it took hours from
AllocateFirstDayOnly(employeeCapacity, i, remainingHours, startDate, foundStart, lastUsedDateStr) ==
    LET open == {j \in i..Len(employeeCapacity) :
                    employeeCapacity[j].hoursAvailable - employeeCapacity[j].hoursAllocated > 0}
        j == CHOOSE k \in open : \A l \in open : k <= l
        hoursToAllocate ==
            IF remainingHours <= employeeCapacity[j].hoursAvailable - employeeCapacity[j].hoursAllocated
            THEN remainingHours
            ELSE employeeCapacity[j].hoursAvailable - employeeCapacity[j].hoursAllocated
    IN  IF open = {} \/ remainingHours <= 0
        THEN [capacity |-> employeeCapacity, remainingHours |-> remainingHours,
              startDate |-> startDate, lastUsedDateStr |-> lastUsedDateStr]
        ELSE [capacity |-> [employeeCapacity EXCEPT ![j].hoursAllocated = @ + hoursToAllocate],
              remainingHours |-> remainingHours - hoursToAllocate,
              startDate |-> employeeCapacity[j].date * 24 - tz,
              lastUsedDateStr |-> <<employeeCapacity[j].date>>]

\* the allocation loop from index i on
RECURSIVE AllocateFrom(_, _, _, _, _, _)
AllocateFrom(employeeCapacity, i, remainingHours, startDate, foundStart, lastUsedDateStr) ==
    IF i > Len(employeeCapacity) \/ remainingHours <= 0
    THEN [capacity |-> employeeCapacity, remainingHours |-> remainingHours,
          startDate |-> startDate, lastUsedDateStr |-> lastUsedDateStr]
    ELSE LET dayCapacity == employeeCapacity[i]
             availableHours == AvailableHours(dayCapacity)
             hoursToAllocate == Min(remainingHours, availableHours)
         IN  IF availableHours > 0
             THEN AllocateFrom(
                     [employeeCapacity EXCEPT ![i].hoursAllocated = @ + hoursToAllocate],
                     i + 1,
                     remainingHours - hoursToAllocate,
                     IF foundStart THEN startDate ELSE ParseLocalMidnight(dayCapacity.date),
                     TRUE,
                     Some(dayCapacity.date))
             ELSE AllocateFrom(employeeCapacity, i + 1, remainingHours,
                               startDate, foundStart, lastUsedDateStr)

\* mutant of CapacitiesAfterWalk: a walk that ends with hours remaining is undone
CapacitiesRolledBack(caps, employeeId, walk) ==
    IF walk.remainingHours > 0 THEN caps ELSE [caps EXCEPT ![employeeId] = walk.capacity]

\* the capacity map after the allocation loop: dayCapacity.hoursAllocated is
\* written in place, whatever the loop ends with
CapacitiesAfterWalk(caps, employeeId, walk) == [caps EXCEPT ![employeeId] = walk.capacity]

\* the schedule of an assigned task and the capacities it leaves behind
AssignedSchedule(task, earliestStartDate, caps) ==
    LET employeeId == Val(task.assignedEmployeeId)
        employeeCapacity == CapacityOf(caps, employeeId)
        startDateStr == ISODate(earliestStartDate)
        idx == StartIndex(employeeCapacity, startDateStr)
        walk == AllocateFrom(employeeCapacity, idx, task.estimatedHours,
                             earliestStartDate, FALSE, None)
    IN  IF Len(employeeCapacity) = 0
        THEN [result |-> Unscheduled("no_capacity"), capacities |-> caps]
        ELSE IF idx = 0
        THEN [result |-> Unscheduled("no_capacity"), capacities |-> caps]
        ELSE [result |->
                IF walk.remainingHours <= 0 /\ IsSome(walk.lastUsedDateStr)
                THEN Scheduled(walk.startDate, ParseLocalMidnight(Val(walk.lastUsedDateStr)))
                ELSE Unscheduled("no_capacity"),
              capacities |-> CapacitiesAfterWalk(caps, employeeId, walk)]

----------------------------------------------------------------------------
(* Release inputs *)

TaskIdSeq == <<"t1", "t2", "t3", "t4", "t5">>

ExternalId == "ext"     \* an id that names no task of the release

TZOffsets == {0 - 5, 0, 3}

Ids(n) == {TaskIdSeq[i] : i \in 1..n}

\* blocker lists of at most two distinct entries, in list order
BlockerLists(n) ==
    LET T == Ids(n) \cup {ExternalId}
    IN  {<<>>} \cup {<<a>> : a \in T} \cup {p \in T \X T : p[1] # p[2]}

RECURSIVE SumLen(_, _)
SumLen(f, n) == IF n = 0 THEN 0 ELSE Len(f[n]) + SumLen(f, n - 1)

PriorityPatterns == {"equal", "desc"}

PriorityOf(pattern, i, n) == IF pattern = "desc" THEN n - i ELSE 0

DateString(day) == [kind |-> "date", v |-> day]

\* startDate.toISOString() of a day picked in the calendar widget (local midnight)
PickedDateString(day, offset) == [kind |-> "instant", v |-> day * 24 - offset]

Period(first, last, hours) == [startDate |-> first, endDate |-> last, hoursPerDay |-> hours]

Employee(periods) == [id |-> "e1", capacityPeriods |-> periods]

WholeHorizon(s, hours) == Period(s - 7, s + HorizonDays + 7, hours)

\* one employee "e1": 8 h/day throughout; 0 h/day throughout; 8 h/day on the first
\* two days only; a 4 h/day period listed before an overlapping 8 h/day period
Full8(s) == <<Employee(<<WholeHorizon(s, 8)>>)>>
Zero(s) == <<Employee(<<WholeHorizon(s, 0)>>)>>
Short(s) == <<Employee(<<Period(s, s + 1, 8)>>)>>
Overlap(s) == <<Employee(<<Period(s + 1, s + 2, 4), WholeHorizon(s, 8)>>)>>

MakeTasks(n, bl, asg, hrs, pattern, cs) ==
    [i \in 1..n |->
        [id |-> TaskIdSeq[i],
         estimatedHours |-> hrs[i],
         assignedEmployeeId |-> asg[i],
         blockerTaskIds |-> bl[i],
         priority |-> PriorityOf(pattern, i, n),
         calculatedStartDate |-> cs[i]]]

MakeRelease(ts, es, start, holidays) ==
    [tasks |-> ts, employees |-> es, startDate |-> start, customHolidays |-> holidays]

Assignees == {None, Some("e1")}

EqualHours(n, h) == [i \in 1..n |-> h]

NoOwnStart(n) == [i \in 1..n |-> None]

\* which tasks have the assignee "e1": none, all, the first only, all but the first
AssignPatterns == {"none", "all", "first", "rest"}

AssignedBy(pattern, n) ==
    [i \in 1..n |->
        IF \/ pattern = "all"
           \/ pattern = "first" /\ i = 1
           \/ pattern = "rest" /\ i > 1
        THEN Some("e1") ELSE None]

\* which tasks take 12 hours instead of 8: none, all, the first only, all but the
\* first; "long" gives the first task 48 hours, six working days
HoursPatterns == {"none", "all", "first", "rest", "long"}

HoursBy(pattern, n) ==
    [i \in 1..n |->
        IF pattern = "long" /\ i = 1 THEN 48
        ELSE IF \/ pattern = "all"
                \/ pattern = "first" /\ i = 1
                \/ pattern = "rest" /\ i > 1
        THEN 12 ELSE 8]

\* Graph family: any blocker graph over n tasks of 8 hours, released on day 8, a
\* Monday, with one employee who has 8 hours on the first horizon day only; this
\* family runs at UTC offset 0
IsGraphRelease(r) ==
    \E n \in 0..MaxTasks :
    \E bl \in {f \in [1..n -> BlockerLists(n)] : SumLen(f, n) <= MaxEdges} :
    \E asg \in AssignPatterns :
    \E pattern \in PriorityPatterns :
        r = MakeRelease(MakeTasks(n, bl, AssignedBy(asg, n), EqualHours(n, 8), pattern,
                                  NoOwnStart(n)),
                        <<Employee(<<Period(8, 8, 8)>>)>>, DateString(8), {})

\* Calendar family: release start and holidays vary (day 8 a Monday, day 12 a Friday
\* followed by a holiday Monday 15, day 13 a Saturday, and day 8 as the calendar
\* widget stores it), as do the employee's periods and the tasks' hours; the tasks
\* are independent or form a chain
Calendars(offset) ==
    {[start |-> DateString(8), day |-> 8, holidays |-> {}],
     [start |-> DateString(12), day |-> 12, holidays |-> {15}],
     [start |-> DateString(13), day |-> 13, holidays |-> {}],
     [start |-> PickedDateString(8, offset), day |-> 8, holidays |-> {}]}

\* blocker lists of the calendar families: independent tasks ("free"), each task
\* behind its predecessor ("chain"), or a chain whose first task lists a missing id
Shapes == {"free", "chain", "external"}

Chain(n, shape) ==
    [i \in 1..n |->
        IF shape = "free" THEN <<>>
        ELSE IF i > 1 THEN <<TaskIdSeq[i - 1]>>
        ELSE IF shape = "external" THEN <<ExternalId>>
        ELSE <<>>]

EmployeeConfigs == {"full8", "zero", "short", "overlap", "nobody"}

EmployeesFor(config, s) ==
    CASE config = "full8" -> Full8(s)
      [] config = "zero" -> Zero(s)
      [] config = "short" -> Short(s)
      [] config = "overlap" -> Overlap(s)
      [] OTHER -> <<>>

IsCalendarRelease(r, offset) ==
    \E n \in 0..MaxTasks :
    \E shape \in Shapes :
    \E asg \in AssignPatterns :
    \E hrs \in HoursPatterns :
    \E c \in Calendars(offset) :
    \E config \in EmployeeConfigs :
        r = MakeRelease(MakeTasks(n, Chain(n, shape), AssignedBy(asg, n), HoursBy(hrs, n),
                                  "equal", NoOwnStart(n)),
                        EmployeesFor(config, c.day), c.start, c.holidays)

\* Own-start family: tasks that carry a calculatedStartDate (day 5 or day 6, the
\* Friday and the Saturday before the release start, or day 10, the Wednesday
\* after it), with equal or descending priorities
IsOwnStartRelease(r) ==
    \E n \in 0..MaxTasks :
    \E shape \in {"free", "chain"} :
    \E asg \in AssignPatterns :
    \E pattern \in PriorityPatterns :
    \E cs \in [1..n -> {None, Some(DateString(5)), Some(DateString(6)), Some(DateString(10))}] :
        r = MakeRelease(MakeTasks(n, Chain(n, shape), AssignedBy(asg, n), EqualHours(n, 8),
                                  pattern, cs),
                        Full8(8), DateString(8), {})

----------------------------------------------------------------------------
(* State machine of one call of calculateGanttData *)

EmptyMap == [k \in {} |-> k]

\* mutant of NewScheduleMap: the map of the previous call is kept
KeptScheduleMap == taskScheduleMap

\* const taskScheduleMap = new Map()
NewScheduleMap == EmptyMap

Init ==
    /\ tz \in TZOffsets
    /\ \/ tz = 0 /\ IsGraphRelease(release)
       \/ IsCalendarRelease(release, tz)
       \/ IsOwnStartRelease(release)
    /\ pc = "start"
    /\ inDegree = EmptyMap
    /\ zero = <<>>
    /\ ordered = <<>>
    /\ sortedTasks = <<>>
    /\ employeeCapacities = EmptyMap
    /\ taskScheduleMap = EmptyMap
    /\ ganttTasks = <<>>
    /\ stack = <<>>
    /\ ret = None
    /\ releaseDate = None
    /\ steps = 0
    /\ snapshot = release
    /\ results = <<>>
    /\ capacitiesAtCall = EmptyMap
    /\ date = 0
    /\ d = 0
    /\ pcDay = "idle"
    /\ data = [releases |-> <<>>]
    /\ lastOp = None

Top == stack[Len(stack)]

Pop == SubSeq(stack, 1, Len(stack) - 1)

ReplaceTop(frame) == [stack EXCEPT ![Len(stack)] = frame]

\* calculateGanttData entry and the set-up of orderTasksByDependenciesAndPriority
BeginOrder ==
    /\ pc = "start"
    /\ inDegree' = InitialInDegree
    /\ zero' = InitialZero
    /\ ordered' = <<>>
    /\ pc' = "order"
    /\ steps' = steps + 1
    /\ UNCHANGED <<data, lastOp, date, d, pcDay, snapshot, results, capacitiesAtCall, tz, release, sortedTasks, employeeCapacities, taskScheduleMap,
                   ganttTasks, stack, ret, releaseDate>>

\* one iteration of the while loop of orderTasksByDependenciesAndPriority
OrderStep ==
    /\ pc = "order"
    /\ zero # <<>>
    /\ LET node == Head(zero)
           relaxed == RelaxOuts(Outs(node), inDegree, Tail(zero))
       IN  /\ ordered' = Append(ordered, node)
           /\ inDegree' = relaxed.inDegree
           /\ zero' = SortByPriority(relaxed.zero)
    /\ steps' = steps + 1
    /\ UNCHANGED <<data, lastOp, date, d, pcDay, snapshot, results, capacitiesAtCall, tz, release, pc, sortedTasks, employeeCapacities, taskScheduleMap,
                   ganttTasks, stack, ret, releaseDate>>

\* the end of orderTasksByDependenciesAndPriority and the set-up of the main loop
BeginSchedule ==
    /\ pc = "order"
    /\ zero = <<>>
    /\ sortedTasks' = OrderResult(ordered)
    /\ employeeCapacities' =
          calculateEmployeeCapacities(release.employees, release.startDate,
                                      release.customHolidays)
    /\ release' = [release EXCEPT !.tasks = InputTasksAfterOrdering(ordered)]
    /\ ganttTasks' = <<>>
    /\ taskScheduleMap' = NewScheduleMap
    /\ pc' = "schedule"
    /\ steps' = steps + 1
    /\ UNCHANGED <<data, lastOp, date, d, pcDay, snapshot, results, capacitiesAtCall, tz, inDegree, zero, ordered,
                   stack, ret, releaseDate>>

\* main loop: the call of calculateTaskSchedule for the next task of sortedTasks
CallSchedule ==
    /\ pc = "schedule"
    /\ stack = <<>>
    /\ ret = None
    /\ Len(ganttTasks) < Len(sortedTasks)
    /\ stack' = <<NewFrame(sortedTasks[Len(ganttTasks) + 1], {})>>
    /\ capacitiesAtCall' = employeeCapacities
    /\ steps' = steps + 1
    /\ UNCHANGED <<data, lastOp, date, d, pcDay, snapshot, results, tz, release, pc, inDegree, zero, ordered, sortedTasks,
                   employeeCapacities, taskScheduleMap, ganttTasks, ret, releaseDate>>

\* calculateTaskSchedule: cycle guard and initial earliest start
EnterSchedule ==
    /\ stack # <<>>
    /\ Top.stage = "entry"
    /\ IF Top.task \in Top.visited
       THEN /\ stack' = Pop
            /\ ret' = Some(CycleOutcome)
       ELSE /\ stack' = ReplaceTop(
                  [Top EXCEPT !.visited = @ \cup {Top.task},
                              !.earliestStartDate = InitialEarliestStart(tasksMapGet(Top.task)),
                              !.stage = "blockers"])
            /\ ret' = None
    /\ steps' = steps + 1
    /\ UNCHANGED <<data, lastOp, date, d, pcDay, snapshot, results, capacitiesAtCall, tz, release, pc, inDegree, zero, ordered, sortedTasks,
                   employeeCapacities, taskScheduleMap, ganttTasks, releaseDate>>

CurrentBlocker == tasksMapGet(Top.task).blockerTaskIds[Top.bi]

AtBlocker ==
    /\ stack # <<>>
    /\ Top.stage = "blockers"
    /\ Top.bi <= Len(tasksMapGet(Top.task).blockerTaskIds)

\* mutant of BlockerIsMissing: the negation of tasksMap.has dropped
BlockerIsInRelease(blockerId) == tasksMapHas(blockerId)

\* the test of the external_blocker branch
BlockerIsMissing(blockerId) == ~tasksMapHas(blockerId)

\* blocker loop: a blocker found in taskScheduleMap, or one that names no task
ResolveBlocker ==
    /\ AtBlocker
    /\ ~(CurrentBlocker \notin DOMAIN taskScheduleMap /\ tasksMapHas(CurrentBlocker))
    /\ IF CurrentBlocker \in DOMAIN taskScheduleMap
       THEN /\ stack' = ReplaceTop(
                  [Top EXCEPT !.latestBlockerEndTime =
                                  LaterEnd(@, taskScheduleMap[CurrentBlocker].endDate),
                              !.bi = @ + 1])
            /\ ret' = None
       ELSE IF BlockerIsMissing(CurrentBlocker)
       THEN /\ stack' = Pop
            /\ ret' = Some(Unscheduled("external_blocker"))
       ELSE /\ stack' = Pop
            /\ ret' = Some(Unscheduled("unknown"))
    /\ steps' = steps + 1
    /\ UNCHANGED <<data, lastOp, date, d, pcDay, snapshot, results, capacitiesAtCall, tz, release, pc, inDegree, zero, ordered, sortedTasks,
                   employeeCapacities, taskScheduleMap, ganttTasks, releaseDate>>

\* blocker loop: the recursive call for a blocker of the release not in taskScheduleMap
RecurseIntoBlocker ==
    /\ AtBlocker
    /\ CurrentBlocker \notin DOMAIN taskScheduleMap
    /\ tasksMapHas(CurrentBlocker)
    /\ stack' = Append(ReplaceTop([Top EXCEPT !.stage = "await"]),
                       NewFrame(CurrentBlocker, Top.visited))
    /\ steps' = steps + 1
    /\ UNCHANGED <<data, lastOp, date, d, pcDay, snapshot, results, capacitiesAtCall, tz, release, pc, inDegree, zero, ordered, sortedTasks,
                   employeeCapacities, taskScheduleMap, ganttTasks, ret, releaseDate>>

\* mutant of PropagatedFailure: every failure of a blocker reported as "external_blocker"
PropagatedAsExternal(computed) == Unscheduled("external_blocker")

\* return { unscheduledReason: computed.unscheduledReason }
PropagatedFailure(computed) == Unscheduled(Val(computed.unscheduledReason))

\* blocker loop: what follows the return of the recursive call
AfterRecursion ==
    /\ stack # <<>>
    /\ Top.stage = "await"
    /\ IsSome(ret)
    /\ LET computed == Val(ret)
       IN  IF IsSome(computed.unscheduledReason)
           THEN /\ stack' = Pop
                /\ ret' = Some(PropagatedFailure(computed))
                /\ UNCHANGED taskScheduleMap
           ELSE IF IsSome(computed.startDate) /\ IsSome(computed.endDate)
           THEN /\ taskScheduleMap' = MapSet(taskScheduleMap, CurrentBlocker, computed)
                /\ stack' = ReplaceTop(
                      [Top EXCEPT !.latestBlockerEndTime = LaterEnd(@, Val(computed.endDate)),
                                  !.bi = @ + 1,
                                  !.stage = "blockers"])
                /\ ret' = None
           ELSE /\ stack' = Pop
                /\ ret' = Some(Unscheduled("unknown"))
                /\ UNCHANGED taskScheduleMap
    /\ steps' = steps + 1
    /\ UNCHANGED <<data, lastOp, date, d, pcDay, snapshot, results, capacitiesAtCall, tz, release, pc, inDegree, zero, ordered, sortedTasks,
                   employeeCapacities, ganttTasks, releaseDate>>

\* after the blocker loop: earliest start, then the unassigned or the capacity path
FinishSchedule ==
    /\ stack # <<>>
    /\ Top.stage = "blockers"
    /\ Top.bi > Len(tasksMapGet(Top.task).blockerTaskIds)
    /\ LET task == tasksMapGet(Top.task)
           earliestStartDate == EarliestAfterBlockers(Top)
       IN  IF ~IsSome(task.assignedEmployeeId)
           THEN /\ ret' = Some(UnassignedSchedule(task, earliestStartDate))
                /\ UNCHANGED employeeCapacities
           ELSE LET out == AssignedSchedule(task, earliestStartDate, employeeCapacities)
                IN  /\ ret' = Some(out.result)
                    /\ employeeCapacities' = out.capacities
    /\ stack' = Pop
    /\ steps' = steps + 1
    /\ UNCHANGED <<data, lastOp, date, d, pcDay, snapshot, results, capacitiesAtCall, tz, release, pc, inDegree, zero, ordered, sortedTasks,
                   taskScheduleMap, ganttTasks, releaseDate>>

\* main loop: the GanttTask record and the taskScheduleMap entry of the task just resolved
RecordTask ==
    /\ pc = "schedule"
    /\ stack = <<>>
    /\ IsSome(ret)
    /\ LET schedule == Val(ret)
           task == tasksMapGet(sortedTasks[Len(ganttTasks) + 1])
       IN  /\ ganttTasks' = Append(ganttTasks,
                  [id |-> task.id,
                   startDate |-> schedule.startDate,
                   endDate |-> schedule.endDate,
                   unscheduledReason |-> schedule.unscheduledReason])
           /\ taskScheduleMap' =
                  IF IsSome(schedule.startDate) /\ IsSome(schedule.endDate)
                  THEN MapSet(taskScheduleMap, task.id, schedule)
                  ELSE taskScheduleMap
    /\ ret' = None
    /\ steps' = steps + 1
    /\ UNCHANGED <<data, lastOp, date, d, pcDay, snapshot, results, capacitiesAtCall, tz, release, pc, inDegree, zero, ordered, sortedTasks,
                   employeeCapacities, stack, releaseDate>>

\* mutant of MaxOf: Math.min
MinOf(S) == CHOOSE m \in S : \A x \in S : m <= x

\* Math.max(...values)
MaxOf(S) == CHOOSE m \in S : \A x \in S : x <= m

\* after the main loop: projectEndDate and the returned GanttData
Finalize ==
    /\ pc = "schedule"
    /\ stack = <<>>
    /\ ret = None
    /\ Len(ganttTasks) = Len(sortedTasks)
    /\ LET isUnsched == \E i \in 1..Len(ganttTasks) :
                            ~IsSome(ganttTasks[i].startDate) \/ ~IsSome(ganttTasks[i].endDate)
       IN  releaseDate' =
               IF Len(ganttTasks) > 0 /\ ~isUnsched
               THEN Some(MaxOf({Val(ganttTasks[i].endDate) : i \in 1..Len(ganttTasks)}))
               ELSE None
    /\ pc' = "done"
    /\ steps' = steps + 1
    /\ UNCHANGED <<data, lastOp, date, d, pcDay, snapshot, results, capacitiesAtCall, tz, release, inDegree, zero, ordered, sortedTasks,
                   employeeCapacities, taskScheduleMap, ganttTasks, stack, ret>>

Next ==
    \/ BeginOrder
    \/ OrderStep
    \/ BeginSchedule
    \/ CallSchedule
    \/ EnterSchedule
    \/ ResolveBlocker
    \/ RecurseIntoBlocker
    \/ AfterRecursion
    \/ FinishSchedule
    \/ RecordTask
    \/ Finalize

Spec == Init /\ [][Next]_vars

----------------------------------------------------------------------------
(* Repeated calls: GanttChart calls calculateGanttData again whenever its release
   prop changes *)

\* a release computed between two calls on the snapshot: the same task and
\* employee ids, another start day, a chain of two assigned tasks
IsInterveningRelease(r) ==
    \E h \in {8, 12} :
        r = MakeRelease(MakeTasks(2, Chain(2, "chain"), [i \in 1..2 |-> Some("e1")],
                                  EqualHours(2, h), "equal", NoOwnStart(2)),
                        Full8(9), DateString(9), {})

\* Repeat family: the release of the first call; tasks of equal hours, independent,
\* chained, or chained behind a missing id, released on day 8, a Monday, with an
\* employee who has hours throughout, on two days only, or with no employee at all
IsRepeatRelease(r) ==
    \E n \in 0..MaxTasks :
    \E shape \in Shapes :
    \E asg \in AssignPatterns :
    \E h \in {8, 12} :
    \E config \in {"full8", "short", "nobody"} :
        r = MakeRelease(MakeTasks(n, Chain(n, shape), AssignedBy(asg, n), EqualHours(n, h),
                                  "equal", NoOwnStart(n)),
                        EmployeesFor(config, 8), DateString(8), {})

InitRepeat ==
    /\ tz \in TZOffsets
    /\ IsRepeatRelease(release)
    /\ pc = "start"
    /\ inDegree = EmptyMap
    /\ zero = <<>>
    /\ ordered = <<>>
    /\ sortedTasks = <<>>
    /\ employeeCapacities = EmptyMap
    /\ taskScheduleMap = EmptyMap
    /\ ganttTasks = <<>>
    /\ stack = <<>>
    /\ ret = None
    /\ releaseDate = None
    /\ steps = 0
    /\ snapshot = release
    /\ results = <<>>
    /\ capacitiesAtCall = EmptyMap
    /\ date = 0
    /\ d = 0
    /\ pcDay = "idle"
    /\ data = [releases |-> <<>>]
    /\ lastOp = None

\* the value a call returned
Result == [tasks |-> ganttTasks, releaseDate |-> releaseDate]

\* the next call: on the snapshot again, or once on another release in between;
\* whatever the previous call left behind is still there when the call begins
CallAgain ==
    /\ pc = "done"
    /\ results = <<>> \/ release # snapshot
    /\ results' = Append(results, Result)
    /\ \/ release' = snapshot
       \/ results = <<>> /\ IsInterveningRelease(release')
    /\ pc' = "start"
    /\ steps' = 0
    /\ UNCHANGED <<data, lastOp, date, d, pcDay, snapshot, capacitiesAtCall, tz, inDegree, zero, ordered, sortedTasks,
                   employeeCapacities, taskScheduleMap, ganttTasks, stack, ret, releaseDate>>

NextRepeat ==
    \/ BeginOrder
    \/ OrderStep
    \/ BeginSchedule
    \/ CallSchedule
    \/ EnterSchedule
    \/ ResolveBlocker
    \/ RecurseIntoBlocker
    \/ AfterRecursion
    \/ FinishSchedule
    \/ RecordTask
    \/ Finalize
    \/ CallAgain

SpecRepeat == InitRepeat /\ [][NextRepeat]_vars

----------------------------------------------------------------------------
(* nextWorkingDay run on its own, one loop iteration per step *)

\* the holidays of a run: any of MaxHolidays days in a row, from Monday 15 on
HolidayChoices == SUBSET {15 + k : k \in 0..(MaxHolidays - 1)}

\* the argument of a run: an instant of Friday 12 to Monday 15 (UTC), at 00:00 or
\* at 21:00
DateChoices == {(12 + k) * 24 + h : k \in 0..3, h \in {0, 21}}

InitCalendar ==
    /\ tz \in TZOffsets
    /\ \E holidays \in HolidayChoices :
          release = MakeRelease(<<>>, <<>>, DateString(8), holidays)
    /\ date \in DateChoices
    /\ d = 0
    /\ pcDay = "call"
    /\ data = [releases |-> <<>>]
    /\ lastOp = None
    /\ pc = "start"
    /\ inDegree = EmptyMap
    /\ zero = <<>>
    /\ ordered = <<>>
    /\ sortedTasks = <<>>
    /\ employeeCapacities = EmptyMap
    /\ taskScheduleMap = EmptyMap
    /\ ganttTasks = <<>>
    /\ stack = <<>>
    /\ ret = None
    /\ releaseDate = None
    /\ steps = 0
    /\ snapshot = release
    /\ results = <<>>
    /\ capacitiesAtCall = EmptyMap

OtherThanDay ==
    <<tz, release, pc, inDegree, zero, ordered, sortedTasks, employeeCapacities,
      taskScheduleMap, ganttTasks, stack, ret, releaseDate, steps,
      snapshot, results, capacitiesAtCall, data, lastOp>>

\* const d = new Date(date); d.setHours(0, 0, 0, 0)
CopyAtMidnight ==
    /\ pcDay = "call"
    /\ d' = SetHoursZero(date)
    /\ pcDay' = "loop"
    /\ UNCHANGED <<date, OtherThanDay>>

\* one iteration of while (!isWorkingDay(d, customHolidays))
AdvanceDay ==
    /\ pcDay = "loop"
    /\ ~isWorkingDay(d, release.customHolidays)
    /\ d' = AddDays(d, 1)
    /\ UNCHANGED <<date, pcDay, OtherThanDay>>

\* return d
ReturnDay ==
    /\ pcDay = "loop"
    /\ isWorkingDay(d, release.customHolidays)
    /\ pcDay' = "returned"
    /\ UNCHANGED <<date, d, OtherThanDay>>

NextCalendar ==
    \/ CopyAtMidnight
    \/ AdvanceDay
    \/ ReturnDay

\* the function runs to its end: a step that can be taken is taken
SpecCalendar == InitCalendar /\ [][NextCalendar]_vars /\ WF_vars(NextCalendar)

----------------------------------------------------------------------------
(* Storage: the task operations of storage.ts on the stored ProjectData, called
   with what TaskDialog hands over.  A stored task is kept with its id and its
   blockerTaskIds; a release with its id and its tasks. *)

ReleaseIds == {"r1", "r2"}

UnknownReleaseId == "r0"    \* an id that names no stored release

\* the ids v4() can return in a run; it never returns an id that is in use
TaskIdPool == Ids(MaxTasks + 1)

\* createRelease: a release starts without tasks
InitStorage ==
    /\ data = [releases |-> <<[id |-> "r1", tasks |-> <<>>], [id |-> "r2", tasks |-> <<>>]>>]
    /\ lastOp = None
    /\ tz = 0
    /\ release = MakeRelease(<<>>, <<>>, DateString(8), {})
    /\ date = 0
    /\ d = 0
    /\ pcDay = "idle"
    /\ pc = "start"
    /\ inDegree = EmptyMap
    /\ zero = <<>>
    /\ ordered = <<>>
    /\ sortedTasks = <<>>
    /\ employeeCapacities = EmptyMap
    /\ taskScheduleMap = EmptyMap
    /\ ganttTasks = <<>>
    /\ stack = <<>>
    /\ ret = None
    /\ releaseDate = None
    /\ steps = 0
    /\ snapshot = release
    /\ results = <<>>
    /\ capacitiesAtCall = EmptyMap

OtherThanStorage ==
    <<tz, release, pc, inDegree, zero, ordered, sortedTasks, employeeCapacities,
      taskScheduleMap, ganttTasks, stack, ret, releaseDate, steps,
      snapshot, results, capacitiesAtCall, date, d, pcDay>>

\* data.releases.findIndex((r) => r.id === releaseId); 0 stands for -1
FindReleaseIndex(releaseId) ==
    LET hits == {i \in 1..Len(data.releases) : data.releases[i].id = releaseId}
    IN  IF hits = {} THEN 0 ELSE CHOOSE i \in hits : \A j \in hits : i <= j

\* tasks.findIndex((t) => t.id === taskId); 0 stands for -1
FindTaskIndex(ts, taskId) ==
    LET hits == {i \in 1..Len(ts) : ts[i].id = taskId}
    IN  IF hits = {} THEN 0 ELSE CHOOSE i \in hits : \A j \in hits : i <= j

\* the task ids in use, in any release
StoredTaskIds ==
    UNION {{data.releases[i].tasks[k].id : k \in 1..Len(data.releases[i].tasks)} :
             i \in 1..Len(data.releases)}

\* sequences over S without repetition
DistinctSeqs(S) ==
    UNION {{q \in [1..n -> S] : \A i, j \in 1..n : q[i] = q[j] => i = j} :
             n \in 0..Cardinality(S)}

\* TaskDialog: the blockerTaskIds it can hand to onSave.  It starts from the
\* edited task's list (empty for a new task); a checkbox, offered for every
\* existing task but the edited one, removes its id or appends it
DialogBlockerChoices(existingTasks, editedId, initial) ==
    LET availableBlockerTasks ==
            {existingTasks[k].id : k \in 1..Len(existingTasks)} \ {editedId}
    IN  {q \in DistinctSeqs(availableBlockerTasks \cup Range(initial)) :
            Range(initial) \ availableBlockerTasks \subseteq Range(q)}

\* mutant of BlockersAfterDelete: the blocker lists are left as they are
BlockersKept(blockerTaskIds, taskId) == blockerTaskIds

\* task.blockerTaskIds.filter((id) => id !== taskId)
BlockersAfterDelete(blockerTaskIds, taskId) ==
    LET Other(id) == id # taskId
    IN  SelectSeq(blockerTaskIds, Other)

addTaskToRelease(releaseId, newId, blockerTaskIds) ==
    LET releaseIndex == FindReleaseIndex(releaseId)
    IN  /\ lastOp' = Some([op |-> "add", releaseId |-> releaseId, taskId |-> newId,
                           before |-> data])
        /\ IF releaseIndex = 0 THEN UNCHANGED data
           ELSE data' = [data EXCEPT !.releases[releaseIndex].tasks =
                            Append(@, [id |-> newId, blockerTaskIds |-> blockerTaskIds])]
        /\ UNCHANGED OtherThanStorage

updateTaskInRelease(releaseId, taskId, blockerTaskIds) ==
    LET releaseIndex == FindReleaseIndex(releaseId)
        taskIndex == IF releaseIndex = 0 THEN 0
                     ELSE FindTaskIndex(data.releases[releaseIndex].tasks, taskId)
    IN  /\ lastOp' = Some([op |-> "update", releaseId |-> releaseId, taskId |-> taskId,
                           before |-> data])
        /\ IF releaseIndex = 0 \/ taskIndex = 0 THEN UNCHANGED data
           ELSE data' = [data EXCEPT !.releases[releaseIndex].tasks[taskIndex].blockerTaskIds =
                            blockerTaskIds]
        /\ UNCHANGED OtherThanStorage

deleteTaskFromRelease(releaseId, taskId) ==
    LET releaseIndex == FindReleaseIndex(releaseId)
        Kept(t) == t.id # taskId
    IN  /\ lastOp' = Some([op |-> "delete", releaseId |-> releaseId, taskId |-> taskId,
                           before |-> data])
        /\ IF releaseIndex = 0 THEN UNCHANGED data
           ELSE LET remaining == SelectSeq(data.releases[releaseIndex].tasks, Kept)
                IN  data' = [data EXCEPT !.releases[releaseIndex].tasks =
                                [k \in 1..Len(remaining) |->
                                    [remaining[k] EXCEPT !.blockerTaskIds =
                                        BlockersAfterDelete(@, taskId)]]]
        /\ UNCHANGED OtherThanStorage

\* handleAddTask: the dialog is open for a new task of the active release
AddTask ==
    \E releaseId \in ReleaseIds \cup {UnknownReleaseId} :
        LET releaseIndex == FindReleaseIndex(releaseId)
            existingTasks == IF releaseIndex = 0 THEN <<>> ELSE data.releases[releaseIndex].tasks
        IN  /\ Len(existingTasks) < MaxTasks
            /\ \E newId \in TaskIdPool \ StoredTaskIds :
               \E blockerTaskIds \in DialogBlockerChoices(existingTasks, "", <<>>) :
                   addTaskToRelease(releaseId, newId, blockerTaskIds)

\* handleUpdateTask: the dialog is open for a task of the active release
UpdateTask ==
    \E releaseId \in ReleaseIds :
        LET existingTasks == data.releases[FindReleaseIndex(releaseId)].tasks
        IN  \E k \in 1..Len(existingTasks) :
            \E blockerTaskIds \in DialogBlockerChoices(existingTasks, existingTasks[k].id,
                                                       existingTasks[k].blockerTaskIds) :
                updateTaskInRelease(releaseId, existingTasks[k].id, blockerTaskIds)

\* handleDeleteTask: a task of the active release, confirmed
DeleteTask ==
    \E releaseId \in ReleaseIds :
        LET existingTasks == data.releases[FindReleaseIndex(releaseId)].tasks
        IN  \E k \in 1..Len(existingTasks) :
                deleteTaskFromRelease(releaseId, existingTasks[k].id)

NextStorage ==
    \/ AddTask
    \/ UpdateTask
    \/ DeleteTask

SpecStorage == InitStorage /\ [][NextStorage]_vars

----------------------------------------------------------------------------
(* Vocabulary of the properties *)

Done == pc = "done"

\* the output record of the task with this id
OutputOf(id) == ganttTasks[CHOOSE i \in 1..Len(ganttTasks) : ganttTasks[i].id = id]

HasDates(g) == IsSome(g.startDate) /\ IsSome(g.endDate)

NoDates(g) == ~IsSome(g.startDate) /\ ~IsSome(g.endDate)

ReasonIs(g, reason) == g.unscheduledReason = Some(reason)

BlockersOf(id) == tasksMapGet(id).blockerTaskIds

\* the calendar day is neither a Saturday, a Sunday nor a custom holiday
IsWorkingCalendarDay(day) ==
    /\ day % 7 # 0
    /\ day % 7 # 6
    /\ day \notin release.customHolidays

\* the calendar day the release start names to the user
ReleaseStartDay ==
    IF release.startDate.kind = "date" THEN release.startDate.v
    ELSE LocalDay(release.startDate.v)

\* the calendar day of an output Date as the user's runtime shows it
DayOf(optDate) == LocalDay(Val(optDate))

\* every entry listed before the first occurrence of id in the blocker list of
\* owner is a task of the release that was successfully scheduled
EarlierBlockersScheduled(owner, id) ==
    LET list == BlockersOf(owner)
        first == CHOOSE k \in 1..Len(list) : list[k] = id /\ \A j \in 1..(k - 1) : list[j] # id
    IN  \A j \in 1..(first - 1) : tasksMapHas(list[j]) /\ HasDates(OutputOf(list[j]))

AllBlockersScheduled(id) ==
    \A b \in Range(BlockersOf(id)) : tasksMapHas(b) /\ HasDates(OutputOf(b))

----------------------------------------------------------------------------
(* C1 *)

\* C1: when the call has returned, the output holds exactly one record per input
\* task: as many records as tasks, the ids of the records are the ids of the
\* tasks, and no id occurs twice.
C1_OneRecordPerTask ==
    Done =>
        /\ Len(ganttTasks) = Len(tasks)
        /\ {ganttTasks[i].id : i \in 1..Len(ganttTasks)} = TaskIdSet
        /\ \A i, j \in 1..Len(ganttTasks) : ganttTasks[i].id = ganttTasks[j].id => i = j

\* a finished pass over a release with a cycle and an external blocker
C1_Witness ==
    /\ Done
    /\ Len(tasks) >= 2
    /\ \E i \in 1..Len(ganttTasks) : ReasonIs(ganttTasks[i], "cycle")
    /\ \E i \in 1..Len(ganttTasks) : ReasonIs(ganttTasks[i], "external_blocker")

----------------------------------------------------------------------------
(* C2 *)

\* C2: for a scheduled task T and a scheduled blocker B of T, T starts on a
\* strictly later calendar day than B ends, and T's start is a working day.
C2_StartsAfterBlockerEnds ==
    Done =>
        \A i \in 1..Len(tasks) : \A b \in Range(tasks[i].blockerTaskIds) :
            (tasksMapHas(b) /\ HasDates(OutputOf(tasks[i].id)) /\ HasDates(OutputOf(b))) =>
                /\ Val(OutputOf(tasks[i].id).startDate) > Val(OutputOf(b).endDate)
                /\ DayOf(OutputOf(tasks[i].id).startDate) > DayOf(OutputOf(b).endDate)
                /\ IsWorkingCalendarDay(DayOf(OutputOf(tasks[i].id).startDate))

----------------------------------------------------------------------------
(* C3 *)

MutualBlockers(a, b) == b \in Range(BlockersOf(a)) /\ a \in Range(BlockersOf(b))

\* C3 as stated: two tasks that list each other as blockers are both output with
\* reason "cycle" and without dates, whatever their other blockers.
C3_MutualBlockersAreCycle ==
    Done =>
        \A a, b \in TaskIdSet :
            (a # b /\ MutualBlockers(a, b)) =>
                ReasonIs(OutputOf(a), "cycle") /\ NoDates(OutputOf(a))

\* C3 amended: two tasks that list each other as blockers are both output without
\* dates and with a reason; the reason is "cycle" when, in each of the two lists,
\* every entry before the other task is a successfully scheduled task.
C3_MutualBlockersUnscheduled ==
    Done =>
        \A a, b \in TaskIdSet :
            (a # b /\ MutualBlockers(a, b)) =>
                /\ NoDates(OutputOf(a))
                /\ IsSome(OutputOf(a).unscheduledReason)
                /\ (EarlierBlockersScheduled(a, b) /\ EarlierBlockersScheduled(b, a)) =>
                        ReasonIs(OutputOf(a), "cycle")

\* two distinct tasks listing each other, one of them with a further blocker, both "cycle"
C3_Witness ==
    /\ Done
    /\ \E a, b \in TaskIdSet :
          /\ a # b
          /\ MutualBlockers(a, b)
          /\ Len(BlockersOf(a)) = 2
          /\ ReasonIs(OutputOf(a), "cycle")
          /\ ReasonIs(OutputOf(b), "cycle")

----------------------------------------------------------------------------
(* C4 *)

HasMissingBlocker(id) == \E b \in Range(BlockersOf(id)) : ~tasksMapHas(b)

\* C4 as stated: a task with a blocker id that names no task of the release is
\* output with reason "external_blocker" and without dates, wherever the id stands.
C4_MissingBlockerIsExternal ==
    Done =>
        \A id \in TaskIdSet :
            HasMissingBlocker(id) =>
                ReasonIs(OutputOf(id), "external_blocker") /\ NoDates(OutputOf(id))

\* C4 amended: such a task is output without dates; its reason is
\* "external_blocker" when every entry before the first missing id is a
\* successfully scheduled task, whatever follows the missing id.
C4_MissingBlockerUnscheduled ==
    Done =>
        \A id \in TaskIdSet : \A b \in Range(BlockersOf(id)) :
            ~tasksMapHas(b) =>
                /\ NoDates(OutputOf(id))
                /\ EarlierBlockersScheduled(id, b) => ReasonIs(OutputOf(id), "external_blocker")

\* a task whose missing blocker id stands second, after a scheduled blocker
C4_Witness ==
    /\ Done
    /\ \E id \in TaskIdSet :
          /\ Len(BlockersOf(id)) = 2
          /\ tasksMapHas(BlockersOf(id)[1])
          /\ HasDates(OutputOf(BlockersOf(id)[1]))
          /\ ~tasksMapHas(BlockersOf(id)[2])
          /\ ReasonIs(OutputOf(id), "external_blocker")

----------------------------------------------------------------------------
(* C5 *)

ReleaseDateMatches ==
    /\ IsSome(releaseDate) <=> (\A i \in 1..Len(ganttTasks) : HasDates(ganttTasks[i]))
    /\ IsSome(releaseDate) =>
          /\ \E i \in 1..Len(ganttTasks) : ganttTasks[i].endDate = releaseDate
          /\ \A i \in 1..Len(ganttTasks) : Val(ganttTasks[i].endDate) <= Val(releaseDate)

\* C5 as stated: releaseDate is present exactly when every task has both dates,
\* and then it is the largest endDate, for a release with any number of tasks.
C5_ReleaseDateIffAllScheduled == Done => ReleaseDateMatches

\* C5 amended: the same for every release with at least one task.
C5_ReleaseDateIffAllScheduledNonEmpty == (Done /\ Len(tasks) >= 1) => ReleaseDateMatches

\* a release date over two tasks that end on different days
C5_Witness ==
    /\ Done
    /\ IsSome(releaseDate)
    /\ \E i, j \in 1..Len(ganttTasks) : Val(ganttTasks[i].endDate) < Val(ganttTasks[j].endDate)

----------------------------------------------------------------------------
(* C6 *)

\* C6: no capacity entry exists for a Saturday, a Sunday or a custom holiday, and
\* no output task starts or ends on such a day.
C6_NothingOnNonWorkingDays ==
    /\ \A e \in DOMAIN employeeCapacities : \A i \in 1..Len(employeeCapacities[e]) :
          IsWorkingCalendarDay(employeeCapacities[e][i].date)
    /\ \A i \in 1..Len(ganttTasks) :
          HasDates(ganttTasks[i]) =>
              /\ IsWorkingCalendarDay(DayOf(ganttTasks[i].startDate))
              /\ IsWorkingCalendarDay(DayOf(ganttTasks[i].endDate))

----------------------------------------------------------------------------
(* C7 *)

ZeroCapacity(e) ==
    \A i \in 1..Len(employeeCapacities[e]) : employeeCapacities[e][i].hoursAvailable = 0

AssignedTo(id, e) ==
    tasksMapGet(id).assignedEmployeeId = Some(e) /\ tasksMapGet(id).estimatedHours > 0

\* C7 as stated: every task with hours assigned to an employee whose capacity is 0
\* on every day of the horizon is output with reason "no_capacity".
C7_ZeroCapacityIsNoCapacity ==
    Done =>
        \A e \in DOMAIN employeeCapacities : \A id \in TaskIdSet :
            (ZeroCapacity(e) /\ AssignedTo(id, e)) => ReasonIs(OutputOf(id), "no_capacity")

\* C7 amended: every such task is output without dates; its reason is
\* "no_capacity" when all of its blockers are successfully scheduled tasks.
C7_ZeroCapacityUnscheduled ==
    Done =>
        \A e \in DOMAIN employeeCapacities : \A id \in TaskIdSet :
            (ZeroCapacity(e) /\ AssignedTo(id, e)) =>
                /\ NoDates(OutputOf(id))
                /\ AllBlockersScheduled(id) => ReasonIs(OutputOf(id), "no_capacity")

\* a task behind a scheduled blocker, assigned to an employee with 0 hours on every day
C7_Witness ==
    /\ Done
    /\ \E e \in DOMAIN employeeCapacities : \E id \in TaskIdSet :
          /\ Len(employeeCapacities[e]) > 0
          /\ ZeroCapacity(e)
          /\ AssignedTo(id, e)
          /\ BlockersOf(id) # <<>>
          /\ AllBlockersScheduled(id)
          /\ ReasonIs(OutputOf(id), "no_capacity")

----------------------------------------------------------------------------
(* C8 *)

RECURSIVE NextWorkingCalendarDay(_)
NextWorkingCalendarDay(day) ==
    IF IsWorkingCalendarDay(day + 1) THEN day + 1 ELSE NextWorkingCalendarDay(day + 1)

\* the scenario of C8: the release starts on a working day; one employee with a
\* single period of 8 hours/day over the whole horizon; two tasks of 8 hours
\* without blockers, both assigned to that employee
TwoTasksOneEmployee ==
    /\ IsWorkingCalendarDay(ReleaseStartDay)
    /\ Len(release.employees) = 1
    /\ Len(release.employees[1].capacityPeriods) = 1
    /\ release.employees[1].capacityPeriods[1].hoursPerDay = 8
    /\ release.employees[1].capacityPeriods[1].startDate <= ReleaseStartDay - 1
    /\ release.employees[1].capacityPeriods[1].endDate >= ReleaseStartDay + HorizonDays + 1
    /\ Len(tasks) = 2
    /\ \A i \in 1..2 :
          /\ tasks[i].blockerTaskIds = <<>>
          /\ tasks[i].estimatedHours = 8
          /\ tasks[i].assignedEmployeeId = Some(release.employees[1].id)
          /\ tasks[i].calculatedStartDate = None

OnDay(g, day) == HasDates(g) /\ DayOf(g.startDate) = day /\ DayOf(g.endDate) = day

\* C8: in that scenario the task processed first starts and ends on the release
\* start day and the other one starts and ends on the next working day.
C8_TwoTasksTakeTwoDays ==
    (Done /\ TwoTasksOneEmployee) =>
        /\ OnDay(OutputOf(sortedTasks[1]), ReleaseStartDay)
        /\ OnDay(OutputOf(sortedTasks[2]), NextWorkingCalendarDay(ReleaseStartDay))

----------------------------------------------------------------------------
(* C9 *)

\* the earliest start the scheduler derives for a task whose blockers have the
\* end dates of the output
EarliestFromOutput(id) ==
    IF BlockersOf(id) = <<>> THEN InitialEarliestStart(tasksMapGet(id))
    ELSE nextWorkingDay(
            AddDays(MaxOf({Val(OutputOf(b).endDate) : b \in Range(BlockersOf(id))}), 1),
            release.customHolidays)

\* the assignee of the task has no unallocated hours on or after the day string
\* of the task's earliest start
NoHoursLeftFor(id) ==
    LET cap == CapacityOf(employeeCapacities, Val(tasksMapGet(id).assignedEmployeeId))
    IN  \A i \in 1..Len(cap) :
            cap[i].date >= ISODate(EarliestFromOutput(id)) =>
                cap[i].hoursAvailable - cap[i].hoursAllocated <= 0

\* C9: a failure stays with its task.  When the call has returned, every task
\* whose blockers are all successfully scheduled tasks is scheduled if it has no
\* assignee, and if it has one it is scheduled or is "no_capacity" with no hours
\* left for it; so no task is unscheduled because an unrelated task failed.
C9_FailuresStayLocal ==
    Done =>
        \A id \in TaskIdSet :
            AllBlockersScheduled(id) =>
                IF ~IsSome(tasksMapGet(id).assignedEmployeeId)
                THEN HasDates(OutputOf(id))
                ELSE \/ HasDates(OutputOf(id))
                     \/ ReasonIs(OutputOf(id), "no_capacity") /\ NoHoursLeftFor(id)

\* a task is scheduled after an earlier task of the main loop failed
C9_Witness ==
    /\ Done
    /\ \E i, j \in 1..Len(ganttTasks) :
          /\ i < j
          /\ IsSome(ganttTasks[i].unscheduledReason)
          /\ HasDates(ganttTasks[j])

----------------------------------------------------------------------------
(* C10 *)

\* nested activations: the outermost call and at most as many recursive calls as
\* there are tasks, the last of them a revisit that its guard ends; each callee's
\* visited set contains its caller and the caller's visited set, strictly once it
\* passed its guard
BoundedRecursion ==
    /\ Len(stack) <= Len(tasks) + 1
    /\ \A k \in 1..(Len(stack) - 1) :
          /\ stack[k].task \in stack[k + 1].visited
          /\ stack[k].visited \subseteq stack[k + 1].visited
          /\ stack[k + 1].stage # "entry" => stack[k].visited # stack[k + 1].visited
    /\ \A k \in 1..Len(stack) : stack[k].visited \subseteq TaskIdSet

\* steps of one activation: its guard, at most two per blocker, its last part
FrameSteps(task) == 2 + 2 * Len(task.blockerTaskIds)

RECURSIVE SumFrameSteps(_)
SumFrameSteps(n) == IF n = 0 THEN 0 ELSE FrameSteps(tasks[n]) + SumFrameSteps(n - 1)

\* steps of a whole call: ordering, then per task of the main loop the call, a
\* chain of at most one activation per task closed by one guarded revisit, and
\* the record; then the final step
StepLimit ==
    (2 + Len(tasks)) + Len(tasks) * (1 + SumFrameSteps(Len(tasks)) + 1 + 1) + 1

\* some step of the call is enabled (the disjunction of the guards of Next)
CanStep ==
    \/ pc = "start"
    \/ pc = "order"
    \/ /\ pc = "schedule"
       /\ stack = <<>>
       /\ IF IsSome(ret) THEN Len(ganttTasks) < Len(sortedTasks)
          ELSE Len(ganttTasks) <= Len(sortedTasks)
    \/ /\ stack # <<>>
       /\ \/ Top.stage = "entry"
          \/ Top.stage = "blockers"
          \/ Top.stage = "await" /\ IsSome(ret)

\* C10: the call terminates, and the recursion of calculateTaskSchedule is never
\* deeper than the number of tasks: at every point the nested activations are
\* bounded as in BoundedRecursion, a call that has not returned can take a step,
\* and the number of steps taken never exceeds StepLimit.
C10_TerminatesWithBoundedRecursion ==
    /\ BoundedRecursion
    /\ ~Done => CanStep
    /\ steps <= StepLimit

\* a recursion as deep as the release has tasks, ended by the cycle guard
C10_Witness ==
    /\ Len(tasks) >= 2
    /\ Len(stack) = Len(tasks) + 1
    /\ ret = None

----------------------------------------------------------------------------
(* C11 *)

\* C11: at every point of a call the Release input is what it was when the call
\* began: tasks in their order with every field, employees with their periods,
\* startDate and customHolidays.
C11_InputUnchanged == release = snapshot

\* a finished call that appended a cyclic remainder in another order than the
\* input lists it
C11_Witness ==
    /\ Done
    /\ Len(ordered) < Len(tasks)
    /\ sortedTasks # TaskIdsInOrder

----------------------------------------------------------------------------
(* C12 *)

\* C12: a call on the snapshot that follows earlier calls returns what the first
\* call on the snapshot returned, also after a call on another release.
C12_SameSnapshotSameResult ==
    (Done /\ results # <<>> /\ release = snapshot) => Result = results[1]

\* the third call has returned: the second one ran on another release and
\* returned something else
C12_Witness ==
    /\ Done
    /\ release = snapshot
    /\ Len(results) = 2
    /\ results[2] # results[1]
    /\ \E i \in 1..Len(ganttTasks) : HasDates(ganttTasks[i])

----------------------------------------------------------------------------
(* C13 *)

\* C13: at every point of a pass, every capacity entry of every employee has
\* 0 <= hoursAllocated <= hoursAvailable.
C13_AllocatedWithinAvailable ==
    \A e \in DOMAIN employeeCapacities : \A i \in 1..Len(employeeCapacities[e]) :
        /\ 0 <= employeeCapacities[e][i].hoursAllocated
        /\ employeeCapacities[e][i].hoursAllocated <= employeeCapacities[e][i].hoursAvailable

\* a day filled to its capacity by two tasks together, each taking a part
C13_Witness ==
    /\ Done
    /\ \E e \in DOMAIN employeeCapacities : \E i \in 1..Len(employeeCapacities[e]) :
          /\ employeeCapacities[e][i].hoursAvailable > 0
          /\ employeeCapacities[e][i].hoursAllocated = employeeCapacities[e][i].hoursAvailable
          /\ \E a, b \in TaskIdSet :
                /\ a # b
                /\ HasDates(OutputOf(a)) /\ HasDates(OutputOf(b))
                /\ tasksMapGet(a).assignedEmployeeId = Some(e)
                /\ tasksMapGet(b).assignedEmployeeId = Some(e)
                /\ OutputOf(a).endDate = OutputOf(b).startDate

----------------------------------------------------------------------------
(* C14 *)

PositionIn(seq, id) == CHOOSE k \in 1..Len(seq) : seq[k] = id

\* a comes before b by priority number, ties by input order
FirstByPriority(a, b) ==
    \/ tasksMapGet(a).priority < tasksMapGet(b).priority
    \/ /\ tasksMapGet(a).priority = tasksMapGet(b).priority
       /\ PositionIn(TaskIdsInOrder, a) < PositionIn(TaskIdsInOrder, b)

\* two tasks without blockers assigned to the same employee
BlockerFreeSameEmployee(a, b) ==
    /\ a # b
    /\ BlockersOf(a) = <<>>
    /\ BlockersOf(b) = <<>>
    /\ IsSome(tasksMapGet(a).assignedEmployeeId)
    /\ tasksMapGet(a).assignedEmployeeId = tasksMapGet(b).assignedEmployeeId

\* C14: of two tasks without blockers assigned to the same employee, the one with
\* the lower priority number (ties by input order) is processed first, and when
\* both are scheduled its start is no later than the other's start and its end
\* no later than the other's end.
C14_EarlierTaskWinsCapacity ==
    Done =>
        \A a, b \in TaskIdSet :
            (BlockerFreeSameEmployee(a, b) /\ FirstByPriority(a, b)) =>
                /\ PositionIn(sortedTasks, a) < PositionIn(sortedTasks, b)
                /\ (HasDates(OutputOf(a)) /\ HasDates(OutputOf(b))) =>
                      /\ Val(OutputOf(a).startDate) <= Val(OutputOf(b).startDate)
                      /\ Val(OutputOf(a).endDate) <= Val(OutputOf(b).endDate)

----------------------------------------------------------------------------
(* C15 *)

InReleaseBlockers(id) == {b \in Range(BlockersOf(id)) : tasksMapHas(b)}

\* S and the tasks reached from S along in-release blocker edges in at most k steps
RECURSIVE BlockerClosure(_, _)
BlockerClosure(S, k) ==
    IF k = 0 THEN S
    ELSE BlockerClosure(S \cup UNION {InReleaseBlockers(x) : x \in S}, k - 1)

TransitiveBlockers(id) == BlockerClosure(InReleaseBlockers(id), Len(tasks))

Acyclic == \A id \in TaskIdSet : id \notin TransitiveBlockers(id)

\* every task of the sequence stands after all of its in-release blockers
AfterItsBlockers(seq) ==
    \A k \in 1..Len(seq) :
        InReleaseBlockers(seq[k]) \subseteq {seq[j] : j \in 1..(k - 1)}

IsPermutationOfTasks(seq) ==
    /\ Len(seq) = Len(tasks)
    /\ Range(seq) = TaskIdSet

\* the tasks not yet extracted whose in-release blockers are all extracted
Available == {id \in TaskIdSet \ Range(ordered) : InReleaseBlockers(id) \subseteq Range(ordered)}

----------------------------------------------------------------------------
(* C16 *)

\* C16: when the extraction ends with tasks left, the order returned is the
\* extracted prefix followed by exactly the tasks left, in ascending priority; it
\* is a permutation of the tasks, and the main loop makes one attempt per task in
\* that order.
C16_RemainderAppendedByPriority ==
    (pc \in {"schedule", "done"} /\ Len(ordered) < Len(tasks)) =>
        /\ IsPermutationOfTasks(sortedTasks)
        /\ SubSeq(sortedTasks, 1, Len(ordered)) = ordered
        /\ {sortedTasks[k] : k \in (Len(ordered) + 1)..Len(sortedTasks)} =
              TaskIdSet \ Range(ordered)
        /\ \A j, k \in (Len(ordered) + 1)..Len(sortedTasks) :
              j < k => tasksMapGet(sortedTasks[j]).priority <= tasksMapGet(sortedTasks[k]).priority
        /\ Done => [k \in 1..Len(ganttTasks) |-> ganttTasks[k].id] = sortedTasks

\* two tasks left by a cycle, appended against their input order
C16_Witness ==
    /\ Done
    /\ Len(tasks) >= Len(ordered) + 2
    /\ \E j, k \in (Len(ordered) + 1)..Len(sortedTasks) :
          /\ j < k
          /\ tasksMapGet(sortedTasks[j]).priority < tasksMapGet(sortedTasks[k]).priority
          /\ PositionIn(TaskIdsInOrder, sortedTasks[j]) > PositionIn(TaskIdsInOrder, sortedTasks[k])

----------------------------------------------------------------------------
(* C17 *)

\* the entry of the blocker list does not resolve: it names no task of the
\* release, or the task it names is output without dates
FailsToResolve(b) == ~tasksMapHas(b) \/ ~HasDates(OutputOf(b))

FirstFailingBlocker(id) ==
    LET list == BlockersOf(id)
        k == CHOOSE i \in 1..Len(list) :
                FailsToResolve(list[i]) /\ \A j \in 1..(i - 1) : ~FailsToResolve(list[j])
    IN  list[k]

\* the reason the first failing entry hands to the task
BlockerStageReason(id) ==
    LET b == FirstFailingBlocker(id)
    IN  IF tasksMapHas(b) THEN OutputOf(b).unscheduledReason ELSE Some("external_blocker")

HasFailingBlocker(id) == \E b \in Range(BlockersOf(id)) : FailsToResolve(b)

\* C17: when the call has returned, a task with a blocker that is unscheduled (or
\* missing) is unscheduled too, with the reason of the first entry of its blocker
\* list that fails to resolve, unchanged; and every transitive in-release blocker
\* of a scheduled task is scheduled.
C17_FailurePropagates ==
    Done =>
        \A id \in TaskIdSet :
            /\ HasFailingBlocker(id) =>
                  /\ NoDates(OutputOf(id))
                  /\ OutputOf(id).unscheduledReason = BlockerStageReason(id)
            /\ HasDates(OutputOf(id)) =>
                  \A b \in TransitiveBlockers(id) : HasDates(OutputOf(b))

\* a task without assignee reported "no_capacity": the reason of its blocker
C17_Witness ==
    /\ Done
    /\ \E id \in TaskIdSet :
          /\ ~IsSome(tasksMapGet(id).assignedEmployeeId)
          /\ ReasonIs(OutputOf(id), "no_capacity")
          /\ tasksMapHas(FirstFailingBlocker(id))

----------------------------------------------------------------------------
(* C18 *)

\* the attempt of the main loop for its current task has returned
AttemptReturned == pc = "schedule" /\ stack = <<>> /\ IsSome(ret)

CurrentTask == sortedTasks[Len(ganttTasks) + 1]

\* the attempt ended in the blocker loop: a blocker is not in taskScheduleMap
FailedInBlockerStage(id) == \E b \in Range(BlockersOf(id)) : b \notin DOMAIN taskScheduleMap

\* C18: an assigned task with a blocker that fails to resolve is output with the
\* reason of its blocker stage, whatever its assignee's capacity; and when an
\* attempt of the main loop returns from the blocker stage, nested calls for
\* already-failed blockers included, every employee's capacity entries are what
\* they were when the attempt began.
C18_BlockerFailureBeforeCapacity ==
    /\ Done =>
          \A id \in TaskIdSet :
              (IsSome(tasksMapGet(id).assignedEmployeeId) /\ HasFailingBlocker(id)) =>
                  OutputOf(id).unscheduledReason = BlockerStageReason(id)
    /\ (AttemptReturned /\ FailedInBlockerStage(CurrentTask)) =>
          /\ IsSome(Val(ret).unscheduledReason)
          /\ employeeCapacities = capacitiesAtCall

\* the attempt of an assigned task returns "no_capacity" from its blocker: the
\* blocker, assigned to the same employee, had taken hours before it failed and
\* was resolved again inside this attempt
C18_Witness ==
    /\ AttemptReturned
    /\ FailedInBlockerStage(CurrentTask)
    /\ Val(ret).unscheduledReason = Some("no_capacity")
    /\ IsSome(tasksMapGet(CurrentTask).assignedEmployeeId)
    /\ \E b \in Range(BlockersOf(CurrentTask)) :
          /\ tasksMapHas(b)
          /\ tasksMapGet(b).assignedEmployeeId = tasksMapGet(CurrentTask).assignedEmployeeId
          /\ \E k \in 1..Len(ganttTasks) : ganttTasks[k].id = b
    /\ LET cap == CapacityOf(employeeCapacities, Val(tasksMapGet(CurrentTask).assignedEmployeeId))
       IN  \E i \in 1..Len(cap) : cap[i].hoursAllocated > 0

----------------------------------------------------------------------------
(* C19 *)

\* the earliest-feasible start of a task whose blockers are all in taskScheduleMap:
\* the working day after the latest end of its blockers, or without blockers the
\* start the task is given, moved to a working day
EarliestFromMap(id) ==
    IF BlockersOf(id) = <<>> THEN InitialEarliestStart(tasksMapGet(id))
    ELSE nextWorkingDay(
            AddDays(MaxOf({taskScheduleMap[b].endDate : b \in Range(BlockersOf(id))}), 1),
            release.customHolidays)

CurrentAssignee == Val(tasksMapGet(CurrentTask).assignedEmployeeId)

\* the capacity entries of the current task's assignee when the attempt began, and now
EntriesAtCall == CapacityOf(capacitiesAtCall, CurrentAssignee)

EntriesNow == CapacityOf(employeeCapacities, CurrentAssignee)

\* hours the attempt added on entry i
Taken(i) == EntriesNow[i].hoursAllocated - EntriesAtCall[i].hoursAllocated

RECURSIVE TakenUpTo(_)
TakenUpTo(n) == IF n = 0 THEN 0 ELSE Taken(n) + TakenUpTo(n - 1)

UsedEntries == {i \in 1..Len(EntriesNow) : Taken(i) > 0}

\* the Date the scheduler makes of the day key of entry i
EntryDate(i) == ParseLocalMidnight(EntriesNow[i].date)

OtherEmployeesUntouched ==
    \A e \in DOMAIN employeeCapacities :
        e # CurrentAssignee => employeeCapacities[e] = capacitiesAtCall[e]

AssignedAttemptReturned ==
    /\ AttemptReturned
    /\ IsSome(tasksMapGet(CurrentTask).assignedEmployeeId)
    /\ ~FailedInBlockerStage(CurrentTask)

\* C19: when the attempt of an assigned task returns a schedule, the attempt added
\* exactly estimatedHours to its assignee's hoursAllocated and nothing to anyone
\* else; every day it took hours from lies at or after the earliest-feasible
\* start; startDate is the first such day and endDate the last; and on each day
\* it took min(hours still remaining, hoursAvailable - hoursAllocated).
C19_AllocationMatchesSchedule ==
    (AssignedAttemptReturned /\ HasDates(Val(ret))) =>
        /\ Len(EntriesNow) = Len(EntriesAtCall)
        /\ OtherEmployeesUntouched
        /\ \A i \in 1..Len(EntriesNow) : Taken(i) >= 0
        /\ TakenUpTo(Len(EntriesNow)) = tasksMapGet(CurrentTask).estimatedHours
        /\ UsedEntries # {}
        /\ \A i \in UsedEntries :
              /\ EntryDate(i) >= EarliestFromMap(CurrentTask)
              /\ Val(Val(ret).startDate) <= EntryDate(i)
              /\ EntryDate(i) <= Val(Val(ret).endDate)
              /\ Taken(i) = Min(tasksMapGet(CurrentTask).estimatedHours - TakenUpTo(i - 1),
                                EntriesAtCall[i].hoursAvailable - EntriesAtCall[i].hoursAllocated)
        /\ \E i \in UsedEntries : EntryDate(i) = Val(Val(ret).startDate)
        /\ \E i \in UsedEntries : EntryDate(i) = Val(Val(ret).endDate)

----------------------------------------------------------------------------
(* C20 *)

\* no entry of any employee has fewer hours allocated than when the main loop
\* made its latest call
NothingGivenBack ==
    \A e \in DOMAIN capacitiesAtCall : \A i \in 1..Len(capacitiesAtCall[e]) :
        employeeCapacities[e][i].hoursAllocated >= capacitiesAtCall[e][i].hoursAllocated

\* C20: hours are never given back: (1) no step of a pass lowers an entry's
\* hoursAllocated; (2) when the attempt of an assigned task returns "no_capacity"
\* from the capacity walk, the hours it took (fewer than estimatedHours) are in the
\* entries and no entry from its start day on has a free hour; (3) when the call
\* has returned, that is still so for every such task.
C20_PartialConsumptionKept ==
    /\ pc \in {"schedule", "done"} => NothingGivenBack
    /\ (AssignedAttemptReturned /\ ReasonIs(Val(ret), "no_capacity")) =>
          /\ Len(EntriesNow) = Len(EntriesAtCall)
          /\ \A i \in 1..Len(EntriesNow) : Taken(i) >= 0
          /\ TakenUpTo(Len(EntriesNow)) < tasksMapGet(CurrentTask).estimatedHours
          /\ \A i \in 1..Len(EntriesNow) :
                EntriesNow[i].date >= ISODate(EarliestFromMap(CurrentTask)) =>
                    /\ EntriesNow[i].hoursAllocated >= EntriesNow[i].hoursAvailable
                    /\ Taken(i) = EntriesAtCall[i].hoursAvailable - EntriesAtCall[i].hoursAllocated
    /\ Done =>
          \A id \in TaskIdSet :
              ( /\ IsSome(tasksMapGet(id).assignedEmployeeId)
                /\ AllBlockersScheduled(id)
                /\ ReasonIs(OutputOf(id), "no_capacity") ) => NoHoursLeftFor(id)

\* a task that took hours and failed; a task of the same employee processed
\* after it fails as well, although it needs no more than the first one took
C20_Witness ==
    /\ Done
    /\ \E j, k \in 1..Len(ganttTasks) :
          /\ j < k
          /\ ReasonIs(ganttTasks[j], "no_capacity")
          /\ ReasonIs(ganttTasks[k], "no_capacity")
          /\ BlockersOf(ganttTasks[j].id) = <<>>
          /\ BlockersOf(ganttTasks[k].id) = <<>>
          /\ IsSome(tasksMapGet(ganttTasks[j].id).assignedEmployeeId)
          /\ tasksMapGet(ganttTasks[j].id).assignedEmployeeId =
                tasksMapGet(ganttTasks[k].id).assignedEmployeeId
          /\ LET cap == CapacityOf(employeeCapacities,
                                   Val(tasksMapGet(ganttTasks[j].id).assignedEmployeeId))
             IN  \E i \in 1..Len(cap) :
                    /\ cap[i].hoursAllocated > 0
                    /\ cap[i].hoursAllocated >= tasksMapGet(ganttTasks[k].id).estimatedHours

----------------------------------------------------------------------------
(* C21 *)

\* the n-th working calendar day after the day
RECURSIVE NthWorkingDayAfter(_, _)
NthWorkingDayAfter(day, n) ==
    IF n = 0 THEN day ELSE NthWorkingDayAfter(NextWorkingCalendarDay(day), n - 1)

\* whole working days of 8 hours that cover the hours
WorkingDaysFor(hours) == CHOOSE n \in 0..hours : 8 * n >= hours /\ 8 * (n - 1) < hours

Unassigned(id) == ~IsSome(tasksMapGet(id).assignedEmployeeId)

\* C21: a task without assignee whose blockers are all successfully scheduled is
\* scheduled, whatever the employees' capacities and however far its days lie
\* beyond the horizon: its startDate is the earliest start the scheduler derived
\* for it, its endDate is local midnight of the ceil(estimatedHours / 8)-th
\* working day after the start day, and its attempt leaves every capacity entry
\* as it was.
C21_UnassignedAlwaysScheduled ==
    /\ (AttemptReturned /\ Unassigned(CurrentTask) /\ ~FailedInBlockerStage(CurrentTask)) =>
          /\ HasDates(Val(ret))
          /\ Val(Val(ret).startDate) = EarliestFromMap(CurrentTask)
          /\ employeeCapacities = capacitiesAtCall
    /\ Done =>
          \A id \in TaskIdSet :
              (Unassigned(id) /\ AllBlockersScheduled(id)) =>
                  /\ HasDates(OutputOf(id))
                  /\ Val(OutputOf(id).startDate) = EarliestFromOutput(id)
                  /\ IsWorkingCalendarDay(DayOf(OutputOf(id).startDate))
                  /\ Val(OutputOf(id).endDate) =
                        ParseLocalMidnight(
                            NthWorkingDayAfter(DayOf(OutputOf(id).startDate),
                                               WorkingDaysFor(tasksMapGet(id).estimatedHours)))

\* a task of 12 hours without assignee, behind a blocker, scheduled over a
\* weekend to an end beyond the horizon
C21_Witness ==
    /\ Done
    /\ \E id \in TaskIdSet :
          /\ Unassigned(id)
          /\ BlockersOf(id) # <<>>
          /\ tasksMapGet(id).estimatedHours = 12
          /\ HasDates(OutputOf(id))
          /\ DayOf(OutputOf(id).endDate) > ReleaseStartDay + HorizonDays
          /\ DayOf(OutputOf(id).endDate) - DayOf(OutputOf(id).startDate) > 2

----------------------------------------------------------------------------
(* C22 *)

\* the working calendar days from the release start day through the last day of
\* the horizon, in ascending order
HorizonWorkingDays ==
    SelectSeq([k \in 1..(HorizonDays + 1) |-> ReleaseStartDay + k - 1], IsWorkingCalendarDay)

\* hoursPerDay of the first period in list order that covers the day, else 0
FirstCoveringHours(employee, day) ==
    LET periods == employee.capacityPeriods
        covering == {i \in 1..Len(periods) :
                        periods[i].startDate <= day /\ day <= periods[i].endDate}
    IN  IF covering = {} THEN 0
        ELSE periods[CHOOSE i \in covering : \A j \in covering : i <= j].hoursPerDay

\* the capacity map as calculateEmployeeCapacities returned it, before the main loop
CapacitiesJustBuilt == pc = "schedule" /\ ganttTasks = <<>> /\ stack = <<>> /\ ret = None

\* C22: the capacity map built for a call has, for every employee of the release,
\* exactly one entry per working calendar day from the release start day through
\* the last day of the horizon, in ascending order, and none for a Saturday, a
\* Sunday or a holiday; each entry has hoursAllocated 0 and the hoursPerDay of the
\* first period in list order that covers its day, or 0.
C22_OneEntryPerWorkingDay ==
    CapacitiesJustBuilt =>
        /\ DOMAIN employeeCapacities = {release.employees[i].id : i \in 1..Len(release.employees)}
        /\ \A i \in 1..Len(release.employees) :
              LET entries == employeeCapacities[release.employees[i].id]
              IN  /\ [k \in 1..Len(entries) |-> entries[k].date] = HorizonWorkingDays
                  /\ \A k \in 1..Len(entries) :
                        /\ entries[k].hoursAllocated = 0
                        /\ entries[k].hoursAvailable =
                              FirstCoveringHours(release.employees[i], entries[k].date)

----------------------------------------------------------------------------
(* C23 *)

\* no capacity entry of the current task's assignee lies at or after the task's
\* earliest-feasible start
NoEntryFromEarliestStart ==
    \A i \in 1..Len(EntriesAtCall) :
        ParseLocalMidnight(EntriesAtCall[i].date) < EarliestFromMap(CurrentTask)

\* the calendar days of the horizon
InHorizon(day) == ReleaseStartDay <= day /\ day <= ReleaseStartDay + HorizonDays

\* C23: when the attempt of an assigned task whose blockers are all resolved
\* finds no capacity entries for its assignee (an assignee that names no employee
\* included), or none at or after its earliest-feasible start, it returns
\* "no_capacity" and takes no hours; and every assigned task that is scheduled
\* has its start day and its end day inside the horizon.
C23_NoCapacityWithoutEntries ==
    /\ (AssignedAttemptReturned /\ NoEntryFromEarliestStart) =>
          /\ ReasonIs(Val(ret), "no_capacity")
          /\ employeeCapacities = capacitiesAtCall
    /\ Done =>
          \A id \in TaskIdSet :
              (~Unassigned(id) /\ HasDates(OutputOf(id))) =>
                  /\ InHorizon(DayOf(OutputOf(id).startDate))
                  /\ InHorizon(DayOf(OutputOf(id).endDate))

----------------------------------------------------------------------------
(* C24 *)

\* the release start day moved forward to a working calendar day
NormalizedStartDay ==
    IF IsWorkingCalendarDay(ReleaseStartDay) THEN ReleaseStartDay
    ELSE NextWorkingCalendarDay(ReleaseStartDay)

\* C24: no scheduled task, assigned or not, starts on a calendar day before the
\* release start day, whatever fields its record carries; and the earliest start
\* of a task without blockers is local midnight of the release start day moved
\* forward to a working day.
C24_NothingBeforeReleaseStart ==
    /\ \A i \in 1..Len(ganttTasks) :
          HasDates(ganttTasks[i]) => DayOf(ganttTasks[i].startDate) >= ReleaseStartDay
    /\ \A k \in 1..Len(stack) :
          (stack[k].stage # "entry" /\ BlockersOf(stack[k].task) = <<>>) =>
              stack[k].earliestStartDate = ParseLocalMidnight(NormalizedStartDay)

----------------------------------------------------------------------------
(* C25 *)

\* d is local midnight of a calendar day at or after the day of date, and no day
\* from the day of date up to the day before d's is a working day
NoWorkingDaySkipped ==
    /\ d = ParseLocalMidnight(LocalDay(d))
    /\ LocalDay(d) >= LocalDay(date)
    /\ \A day \in LocalDay(date)..(LocalDay(d) - 1) : ~IsWorkingCalendarDay(day)

\* isWorkingDay is false exactly for Saturdays, Sundays and days in customHolidays
isWorkingDayIsExact(t) ==
    isWorkingDay(t, release.customHolidays) <=> IsWorkingCalendarDay(LocalDay(t))

\* C25: nextWorkingDay run on its own returns, and what it returns is local
\* midnight of the smallest working calendar day at or after the day of its
\* argument (that day itself when it is a working day); on the way, isWorkingDay
\* is false exactly for Saturdays, Sundays and holidays, on the argument and on
\* every value of d; the value is the one the scheduler's nextWorkingDay gives.
C25_NextWorkingDayIsSmallest ==
    /\ [](pcDay \in {"call", "loop", "returned"} => isWorkingDayIsExact(date))
    /\ [](pcDay \in {"loop", "returned"} => (isWorkingDayIsExact(d) /\ NoWorkingDaySkipped))
    /\ [](pcDay = "returned" =>
            /\ IsWorkingCalendarDay(LocalDay(d))
            /\ d = nextWorkingDay(date, release.customHolidays))
    /\ <>(pcDay = "returned")

\* a run from a Saturday evening over the weekend and three holidays in a row
C25_Witness ==
    /\ pcDay = "returned"
    /\ LocalDay(date) % 7 = 6
    /\ date # ParseLocalMidnight(LocalDay(date))
    /\ Cardinality(release.customHolidays) >= 3
    /\ LocalDay(d) - LocalDay(date) >= 5

----------------------------------------------------------------------------
(* C26 *)

\* the activation is past its blocker loop: its earliest-feasible start is fixed
PastBlockerLoop(frame) ==
    frame.stage = "blockers" /\ frame.bi > Len(BlockersOf(frame.task))

\* the day toISOString() names is the local calendar day of the Date
SameDayInUTC(t) == ISODate(t) = LocalDay(t)

\* the values currentDate takes in calculateEmployeeCapacities
CapacityBuilderDates == {AddDays(ParseDate(release.startDate), k) : k \in 0..HorizonDays}

\* C26: in every UTC offset, (1) the day key made of an earliest-feasible start
\* names the local calendar day of that Date; (2) the day key of a capacity entry
\* names the day isWorkingDay tested for it; (3) a task with a blocker takes no
\* hours from an entry of a day at or before the day its blocker ends.
C26_DayKeysAgree ==
    /\ \A k \in 1..Len(stack) :
          PastBlockerLoop(stack[k]) => SameDayInUTC(EarliestAfterBlockers(stack[k]))
    /\ pc \in {"schedule", "done"} => \A t \in CapacityBuilderDates : SameDayInUTC(t)
    /\ (AssignedAttemptReturned /\ BlockersOf(CurrentTask) # <<>>) =>
          \A i \in UsedEntries : \A b \in Range(BlockersOf(CurrentTask)) :
              EntryDate(i) > taskScheduleMap[b].endDate

----------------------------------------------------------------------------
(* C27 *)

\* the task lies on a cycle of in-release blockers (a task listing itself included)
OnCycle(id) == id \in TransitiveBlockers(id)

\* the task lies on a cycle or has a task on a cycle among its transitive blockers
DependsOnCycle(id) == OnCycle(id) \/ \E b \in TransitiveBlockers(id) : OnCycle(b)

\* C27: at every point of a call, no task that lies on a blocker cycle or
\* transitively depends on one is in the schedule map, and its output record,
\* once written, has no dates and has a reason; whatever the priorities and the
\* place of the task in the remainder.
C27_CyclicTasksNeverScheduled ==
    /\ \A id \in DOMAIN taskScheduleMap : id \in TaskIdSet => ~DependsOnCycle(id)
    /\ \A i \in 1..Len(ganttTasks) :
          (\/ IsSome(ganttTasks[i].startDate)
           \/ IsSome(ganttTasks[i].endDate)
           \/ ~IsSome(ganttTasks[i].unscheduledReason)) => ~DependsOnCycle(ganttTasks[i].id)
    /\ Done => \A id \in TaskIdSet : DependsOnCycle(id) => NoDates(OutputOf(id))

\* a task that is on no cycle itself but behind one, processed before the task
\* on the cycle
C27_Witness ==
    /\ Done
    /\ \E a, b \in TaskIdSet :
          /\ a # b
          /\ OnCycle(a)
          /\ ~OnCycle(b)
          /\ a \in TransitiveBlockers(b)
          /\ PositionIn(sortedTasks, b) < PositionIn(sortedTasks, a)
          /\ NoDates(OutputOf(a))
          /\ NoDates(OutputOf(b))

----------------------------------------------------------------------------
(* C28 *)

ReportedReasons == {"cycle", "external_blocker", "no_capacity"}

\* both dates, the start not after the end, and no reason
ScheduledShape(g) ==
    /\ HasDates(g)
    /\ Val(g.startDate) <= Val(g.endDate)
    /\ g.unscheduledReason = None

\* no date, and one of the three reasons
UnscheduledShape(g) ==
    /\ NoDates(g)
    /\ IsSome(g.unscheduledReason)
    /\ Val(g.unscheduledReason) \in ReportedReasons

\* C28: at every point of a call, every output record and every value returned
\* by calculateTaskSchedule, nested calls included, has both dates with
\* startDate <= endDate and no reason, or no date and one of the reasons "cycle",
\* "external_blocker", "no_capacity"; so "unknown" is never returned and no record
\* has one date only.
C28_TwoShapesOnly ==
    /\ \A i \in 1..Len(ganttTasks) :
          ScheduledShape(ganttTasks[i]) \/ UnscheduledShape(ganttTasks[i])
    /\ IsSome(ret) => (ScheduledShape(Val(ret)) \/ UnscheduledShape(Val(ret)))

\* a finished call with a record of each shape, the scheduled one over several days
C28_Witness ==
    /\ Done
    /\ \E i, j \in 1..Len(ganttTasks) :
          /\ ScheduledShape(ganttTasks[i])
          /\ Val(ganttTasks[i].startDate) < Val(ganttTasks[i].endDate)
          /\ UnscheduledShape(ganttTasks[j])

----------------------------------------------------------------------------
(* C29 *)

\* a nested call has just returned to the activation that made it
NestedCallReturned == stack # <<>> /\ Top.stage = "await" /\ IsSome(ret)

\* the schedule map holds exactly the tasks the main loop recorded with dates,
\* with the dates of their records
MapMirrorsOutput ==
    /\ DOMAIN taskScheduleMap =
          {ganttTasks[i].id : i \in {j \in 1..Len(ganttTasks) : HasDates(ganttTasks[j])}}
    /\ \A i \in 1..Len(ganttTasks) :
          HasDates(ganttTasks[i]) =>
              taskScheduleMap[ganttTasks[i].id] =
                  [startDate |-> Val(ganttTasks[i].startDate),
                   endDate |-> Val(ganttTasks[i].endDate)]

RECURSIVE SumAllocated(_, _)
SumAllocated(entries, n) ==
    IF n = 0 THEN 0 ELSE entries[n].hoursAllocated + SumAllocated(entries, n - 1)

\* the hours of the first n tasks that are assigned to e and satisfy Counted
RECURSIVE SumHours(_, _, _)
SumHours(e, Counted(_), n) ==
    IF n = 0 THEN 0
    ELSE (IF tasks[n].assignedEmployeeId = Some(e) /\ Counted(tasks[n].id)
          THEN tasks[n].estimatedHours ELSE 0) + SumHours(e, Counted, n - 1)

IsScheduled(id) == HasDates(OutputOf(id))

\* C29: (1) a nested call of calculateTaskSchedule never returns a schedule, and
\* while nested calls run no capacity entry changes; (2) at every point of the
\* main loop the schedule map holds exactly the tasks the main loop recorded with
\* dates, with the dates of the output; (3) when the call has returned, the hours
\* allocated of an employee are at least the hours of the scheduled tasks
\* assigned to them and at most the hours of their tasks whose blockers are all
\* scheduled: no task's hours are in the entries twice.
C29_NestedCallsNeverSucceed ==
    /\ NestedCallReturned =>
          /\ IsSome(Val(ret).unscheduledReason)
          /\ NoDates(Val(ret))
    /\ Len(stack) >= 2 => employeeCapacities = capacitiesAtCall
    /\ pc \in {"schedule", "done"} => MapMirrorsOutput
    /\ Done =>
          \A e \in DOMAIN employeeCapacities :
              LET total == SumAllocated(employeeCapacities[e], Len(employeeCapacities[e]))
              IN  /\ SumHours(e, IsScheduled, Len(tasks)) <= total
                  /\ total <= SumHours(e, AllBlockersScheduled, Len(tasks))

\* a nested call for a blocker that failed in the main loop after taking hours
\* returns "no_capacity" again
C29_Witness ==
    /\ NestedCallReturned
    /\ Len(stack) = 1
    /\ Val(ret).unscheduledReason = Some("no_capacity")
    /\ \E k \in 1..Len(ganttTasks) :
          /\ ganttTasks[k].id = CurrentBlocker
          /\ ReasonIs(ganttTasks[k], "no_capacity")
          /\ IsSome(tasksMapGet(CurrentBlocker).assignedEmployeeId)
          /\ LET cap == CapacityOf(employeeCapacities,
                                   Val(tasksMapGet(CurrentBlocker).assignedEmployeeId))
             IN  SumAllocated(cap, Len(cap)) > 0

----------------------------------------------------------------------------
(* C30 *)

StoredIdsOf(r) == {r.tasks[k].id : k \in 1..Len(r.tasks)}

\* every blocker id of every task names a task of the same release, and no task
\* lists itself
BlockersReferToOwnRelease ==
    \A i \in 1..Len(data.releases) : \A k \in 1..Len(data.releases[i].tasks) :
        LET t == data.releases[i].tasks[k]
        IN  /\ Range(t.blockerTaskIds) \subseteq StoredIdsOf(data.releases[i])
            /\ t.id \notin Range(t.blockerTaskIds)

\* q without the entries equal to x, in the order of q
Without(q, x) ==
    LET Other(y) == y # x
    IN  SelectSeq(q, Other)

\* the latest operation was deleteTaskFromRelease on a stored release
DeletedLast == IsSome(lastOp) /\ Val(lastOp).op = "delete"

\* what the latest delete left: the other releases as they were; in its release
\* the other tasks in their order, each with its blocker list without the
\* deleted id and otherwise as it was
DeleteRemovedEveryReference ==
    LET before == Val(lastOp).before
        gone == Val(lastOp).taskId
    IN  /\ Len(data.releases) = Len(before.releases)
        /\ \A i \in 1..Len(data.releases) :
              IF before.releases[i].id # Val(lastOp).releaseId
              THEN data.releases[i] = before.releases[i]
              ELSE /\ data.releases[i].id = before.releases[i].id
                   /\ [k \in 1..Len(data.releases[i].tasks) |-> data.releases[i].tasks[k].id] =
                         Without([k \in 1..Len(before.releases[i].tasks) |->
                                     before.releases[i].tasks[k].id], gone)
                   /\ \A k \in 1..Len(data.releases[i].tasks) :
                         \E j \in 1..Len(before.releases[i].tasks) :
                             /\ before.releases[i].tasks[j].id = data.releases[i].tasks[k].id
                             /\ data.releases[i].tasks[k].blockerTaskIds =
                                   Without(before.releases[i].tasks[j].blockerTaskIds, gone)
                   /\ \A k \in 1..Len(data.releases[i].tasks) :
                         gone \notin Range(data.releases[i].tasks[k].blockerTaskIds)

\* C30: after any sequence of addTaskToRelease and updateTaskInRelease with the
\* blockers TaskDialog can hand over, and deleteTaskFromRelease, every blocker id
\* of every stored task names a task of its release and no task lists itself;
\* and a delete leaves the other releases untouched and removes the deleted id
\* from every blocker list of its release.
C30_BlockersStayInsideRelease ==
    /\ BlockersReferToOwnRelease
    /\ DeletedLast => DeleteRemovedEveryReference

\* a task was deleted that the remaining task of its release listed as a blocker,
\* while the other release holds a task
C30_Witness ==
    /\ DeletedLast
    /\ \E i \in 1..Len(data.releases) :
          /\ data.releases[i].id = Val(lastOp).releaseId
          /\ Len(data.releases[i].tasks) >= 1
          /\ \E j \in 1..Len(Val(lastOp).before.releases[i].tasks) :
                Val(lastOp).taskId \in
                    Range(Val(lastOp).before.releases[i].tasks[j].blockerTaskIds)
    /\ \E i \in 1..Len(data.releases) :
          /\ data.releases[i].id # Val(lastOp).releaseId
          /\ Len(data.releases[i].tasks) >= 1

====
